---- MODULE Spec2Model ----
(***************************************************************************)
(* Admin moderation and status-transition workflow of the iYaya backend:   *)
(* the admin router (routes/adminRoutes.js), its authentication middleware *)
(* (middleware/auth.js), the admin controller handlers                     *)
(* (controllers/adminController.js) and the Supabase service layer they    *)
(* call (services/supabaseService.js), over the tables users, jobs,        *)
(* bookings, payments, payment_proofs, caregiver_profiles,                 *)
(* system_settings, audit_logs and user_status_history, plus the SQL sweep *)
(* auto_reactivate_expired_suspensions (migrations).                       *)
(*                                                                         *)
(* Every request handler is one atomic step.  A handler is a pure operator *)
(* from the database before the request, the acting user, the request      *)
(* arguments and the storage fault injected into the request, to the HTTP  *)
(* status code and the database after the request.  A timestamp is a day   *)
(* number; a nullable timestamp is the empty set or a singleton.           *)
(***************************************************************************)
EXTENDS Integers, Sequences, FiniteSets

VARIABLES
    users,                \* table users: id -> row
    jobs,                 \* table jobs: id -> row
    bookings,             \* table bookings: id -> row
    payments,             \* table payments: id -> row
    payment_proofs,       \* table payment_proofs: the set of its rows
    caregiver_profiles,   \* table caregiver_profiles: user id -> row
    system_settings,      \* table system_settings: no row, or the row with id 1
    audit_logs,           \* table audit_logs, in insertion order
    user_status_history,  \* table user_status_history, in insertion order
    now,                  \* wall clock, in days
    env,                  \* process.env, fixed at start-up
    req,                  \* the admin request being answered, if any
    res,                  \* the response to it
    snap,                 \* the database as it was before that request
    lastSweep,            \* day of the sweep run since that request, if any
    calls,                \* the booking transitions running side by side
    user_reports          \* table user_reports: id -> row

vars == <<users, jobs, bookings, payments, payment_proofs, caregiver_profiles,
          system_settings, audit_logs, user_status_history, now, env, req, res, snap, lastSweep, calls,
          user_reports>>

-----------------------------------------------------------------------------
(* Bounds of the model *)

\* most rows the audit_logs table, and the user_status_history table, hold
MaxLog == 1
\* last day of the clock
MaxTime == 3

-----------------------------------------------------------------------------
(* Identifiers and vocabularies *)

UserIds == {"U1", "U2"}
JobIds == {"J1"}
BookingIds == {"B1"}

\* a JavaScript undefined / a missing request field
UNDEF == "undefined"

Roles == {"parent", "caregiver", "admin", "superadmin"}

\* The call a request fails at, if any: the row write, the
\* user_status_history insert, the audit_logs insert or the sending of the
\* status email, while the request works on its item-th target (a
\* single-target request has one item).  For a list of users the kind is
\* "select" and the item says how each select of the request ends.
FaultKinds == {"none", "write", "history", "audit", "email", "select"}
Fault(kind, item) == [kind |-> kind, item |-> item]
NoFault == Fault("none", 1)

\* req.user of the requests the admin router lets through
Admin1 == [id |-> "A1", role |-> "admin"]
Super1 == [id |-> "S1", role |-> "superadmin"]
Actors == {Admin1, Super1}

DB == [users |-> users, jobs |-> jobs, bookings |-> bookings,
       payments |-> payments, payment_proofs |-> payment_proofs,
       caregiver_profiles |-> caregiver_profiles, system_settings |-> system_settings,
       audit_logs |-> audit_logs, user_status_history |-> user_status_history,
       user_reports |-> user_reports]

\* A handler's outcome: the status code of the response, the ids of the rows
\* its data carries when that is a list, the tables after it, the call that
\* failed while it ran, if one did, the users it sent a status email to, and
\* the first and last row index of the range() it asked storage for.
Outcome(code, db) ==
    [statusCode |-> code, data |-> <<>>, db |-> db, failed |-> "none", emails |-> <<>>, range |-> <<>>]

\* the outcome of a handler whose try block threw at the storage call `kind`:
\* its catch answers 500
Threw(kind, db) ==
    [statusCode |-> 500, data |-> <<>>, db |-> db, failed |-> kind, emails |-> <<>>, range |-> <<>>]

\* request arguments; a field a route does not read is UNDEF / empty
NoArgs == [id |-> UNDEF, status |-> UNDEF, durationDays |-> {}, userIds |-> <<>>,
           role |-> UNDEF, notes |-> [type |-> "undefined", chars |-> <<>>],
           reason |-> [type |-> "undefined", chars |-> <<>>],
           title |-> UNDEF, email |-> UNDEF, page |-> UNDEF, limit |-> UNDEF,
           settings |-> [k \in {"maintenanceMode", "registrationEnabled",
                                "emailVerificationRequired", "backgroundCheckRequired"} |-> {}]]

-----------------------------------------------------------------------------
(* AuditLogService *)

AuditEntry(adminId, action, targetId, from, to, status) ==
    [admin_id |-> adminId, action |-> action, target_id |-> targetId,
     from |-> from, to |-> to, status |-> status]

\* a create that replaces the stored rows by the new one
AuditLogService_create_Overwrite(log, logData, fault) ==
    IF fault.kind = "audit"
    THEN [threw |-> TRUE, audit_logs |-> log]
    ELSE [threw |-> FALSE, audit_logs |-> <<logData>>]

\* AuditLogService.create: one insert; a storage error is thrown to the caller
AuditLogService_create(log, logData, fault) ==
    IF fault.kind = "audit"
    THEN [threw |-> TRUE, audit_logs |-> log]
    ELSE [threw |-> FALSE, audit_logs |-> Append(log, logData)]

-----------------------------------------------------------------------------
(* Bookings *)

BookingStatuses == {"pending", "confirmed", "completed", "cancelled"}

NoBooking == [present |-> FALSE, status |-> UNDEF]

\* BookingService.updateStatus: update({status}).eq("id", id)
BookingService_updateStatus(bk, id, status) ==
    [bk EXCEPT ![id].status = status]

\* applyBookingStatusChange without its allow-list check
applyBookingStatusChange_NoCheck(db, bookingId, adminId, targetStatus, auditAction, checked, allowedCurrentStatuses, fault) ==
    LET booking == IF bookingId \in BookingIds THEN db.bookings[bookingId] ELSE NoBooking IN
    IF ~booking.present THEN Outcome(404, db)
    ELSE IF fault.kind = "write" THEN Threw("write", db)
    ELSE
      LET db2 == [db EXCEPT !.bookings = BookingService_updateStatus(db.bookings, bookingId, targetStatus)]
          a == AuditLogService_create(db2.audit_logs,
                 AuditEntry(adminId, auditAction, bookingId, booking.status, targetStatus, UNDEF), fault)
      IN IF a.threw THEN Threw("audit", db2)
         ELSE Outcome(200, [db2 EXCEPT !.audit_logs = a.audit_logs])

\* applyBookingStatusChange with its two writes swapped: the audit entry
\* first, the status after it
applyBookingStatusChange_AuditFirst(db, bookingId, adminId, targetStatus, auditAction, checked, allowedCurrentStatuses, fault) ==
    LET booking == IF bookingId \in BookingIds THEN db.bookings[bookingId] ELSE NoBooking IN
    IF ~booking.present THEN Outcome(404, db)
    ELSE IF checked /\ booking.status \notin allowedCurrentStatuses THEN Outcome(400, db)
    ELSE
      LET a == AuditLogService_create(db.audit_logs,
                 AuditEntry(adminId, auditAction, bookingId, booking.status, targetStatus, UNDEF), fault)
          db2 == [db EXCEPT !.audit_logs = a.audit_logs]
      IN IF a.threw THEN Threw("audit", db)
         ELSE IF fault.kind = "write" THEN Threw("write", db2)
         ELSE Outcome(200, [db2 EXCEPT !.bookings =
                              BookingService_updateStatus(db.bookings, bookingId, targetStatus)])

\* applyBookingStatusChange; `checked` is FALSE when the caller passes no
\* allowedCurrentStatuses
applyBookingStatusChange(db, bookingId, adminId, targetStatus, auditAction, checked, allowedCurrentStatuses, fault) ==
    LET booking == IF bookingId \in BookingIds THEN db.bookings[bookingId] ELSE NoBooking IN
    IF ~booking.present THEN Outcome(404, db)
    ELSE IF checked /\ booking.status \notin allowedCurrentStatuses THEN Outcome(400, db)
    ELSE IF fault.kind = "write" THEN Threw("write", db)
    ELSE
      LET db2 == [db EXCEPT !.bookings = BookingService_updateStatus(db.bookings, bookingId, targetStatus)]
          a == AuditLogService_create(db2.audit_logs,
                 AuditEntry(adminId, auditAction, bookingId, booking.status, targetStatus, UNDEF), fault)
      IN IF a.threw THEN Threw("audit", db2)
         ELSE Outcome(200, [db2 EXCEPT !.audit_logs = a.audit_logs])

\* exports.updateBookingStatus
updateBookingStatus(db, actor, args, fault) ==
    IF args.status \notin BookingStatuses THEN Outcome(400, db)
    ELSE applyBookingStatusChange(db, args.id, actor.id, args.status,
                                  "UPDATE_BOOKING_STATUS", FALSE, {}, fault)

\* exports.confirmBooking
confirmBooking(db, actor, args, fault) ==
    applyBookingStatusChange(db, args.id, actor.id, "confirmed",
                             "CONFIRM_BOOKING", TRUE, {"pending"}, fault)

\* exports.startBooking
startBooking(db, actor, args, fault) ==
    applyBookingStatusChange(db, args.id, actor.id, "confirmed",
                             "START_BOOKING", TRUE, {"confirmed"}, fault)

\* exports.completeBooking
completeBooking(db, actor, args, fault) ==
    applyBookingStatusChange(db, args.id, actor.id, "completed",
                             "COMPLETE_BOOKING", TRUE, {"confirmed"}, fault)

\* exports.cancelBooking
cancelBooking(db, actor, args, fault) ==
    applyBookingStatusChange(db, args.id, actor.id, "cancelled",
                             "CANCEL_BOOKING", TRUE, {"pending", "confirmed"}, fault)

BookingRoutes == {"updateBookingStatus", "confirmBooking", "startBooking",
                  "completeBooking", "cancelBooking"}

\* Two requests that run applyBookingStatusChange side by side.  Each call
\* is at one of the awaits of the function: before findById ("idle"), before
\* BookingService.updateStatus ("read"), before AuditLogService.create
\* ("written"), or returned ("done").  `booking` is the row its findById
\* returned, writesSeen the number of status writes stored before that read,
\* writeNo the place of its own write among the writes.
Callers == {"call1", "call2"}

IdleCall == [pc |-> "idle", route |-> "none", id |-> UNDEF, booking |-> NoBooking,
             writesSeen |-> 0, writeNo |-> 0, statusCode |-> 0]

\* what confirmBooking, startBooking, completeBooking and cancelBooking hand
\* to applyBookingStatusChange
BookingTransition(route) ==
    CASE route = "confirmBooking" ->
           [targetStatus |-> "confirmed", auditAction |-> "CONFIRM_BOOKING",
            allowedCurrentStatuses |-> {"pending"}]
      [] route = "startBooking" ->
           [targetStatus |-> "confirmed", auditAction |-> "START_BOOKING",
            allowedCurrentStatuses |-> {"confirmed"}]
      [] route = "completeBooking" ->
           [targetStatus |-> "completed", auditAction |-> "COMPLETE_BOOKING",
            allowedCurrentStatuses |-> {"confirmed"}]
      [] route = "cancelBooking" ->
           [targetStatus |-> "cancelled", auditAction |-> "CANCEL_BOOKING",
            allowedCurrentStatuses |-> {"pending", "confirmed"}]

\* a status write that is dropped when the row no longer has the status read
writeBookingStatus_IfUnchanged(bk, call) ==
    IF bk[call.id].status = call.booking.status
    THEN BookingService_updateStatus(bk, call.id, BookingTransition(call.route).targetStatus)
    ELSE bk

\* the status write of a call: BookingService.updateStatus(bookingId, targetStatus)
writeBookingStatus(bk, call) ==
    BookingService_updateStatus(bk, call.id, BookingTransition(call.route).targetStatus)

-----------------------------------------------------------------------------
(* Jobs *)

\* the values the jobs.status column persists
JobStatuses == {"active", "filled", "cancelled", "completed"}

NoJob == [present |-> FALSE, status |-> UNDEF]

\* JobService.findById; a missing row is null
JobService_findById(db, id) ==
    IF id \in JobIds THEN db.jobs[id] ELSE NoJob

\* JobService.updateStatus: update({status}).eq("id", id)
JobService_updateStatus(jb, id, status) ==
    [jb EXCEPT ![id].status = status]

\* JobService.approve: the job is marked filled
JobService_approve(jb, id) == JobService_updateStatus(jb, id, "filled")

\* JobService.reject: a rejected job is cancelled
JobService_reject(jb, id) == JobService_updateStatus(jb, id, "cancelled")

\* JobService.cancel
JobService_cancel(jb, id) == JobService_updateStatus(jb, id, "cancelled")

\* JobService.complete
JobService_complete(jb, id) == JobService_updateStatus(jb, id, "completed")

\* JobService.reopen: back to active
JobService_reopen(jb, id) == JobService_updateStatus(jb, id, "active")

\* The body the exported approveJob, rejectJob, cancelJob, completeJob and
\* reopenJob share: find the job, call the service transition `jobsAfter`,
\* write the audit entry {status: auditStatus}, answer 200.
jobAction(db, actor, id, jobsAfter, auditAction, auditStatus, fault) ==
    LET job == JobService_findById(db, id) IN
    IF ~job.present THEN Outcome(404, db)
    ELSE IF fault.kind = "write" THEN Threw("write", db)
    ELSE
      LET db2 == [db EXCEPT !.jobs = jobsAfter]
          a == AuditLogService_create(db2.audit_logs,
                 AuditEntry(actor.id, auditAction, id, UNDEF, UNDEF, auditStatus), fault)
      IN IF a.threw THEN Threw("audit", db2)
         ELSE Outcome(200, [db2 EXCEPT !.audit_logs = a.audit_logs])

\* exports.approveJob (the definition module.exports carries)
approveJob(db, actor, args, fault) ==
    jobAction(db, actor, args.id, JobService_approve(db.jobs, args.id),
              "APPROVE_JOB", "approved", fault)

\* exports.rejectJob (the definition module.exports carries)
rejectJob(db, actor, args, fault) ==
    jobAction(db, actor, args.id, JobService_reject(db.jobs, args.id),
              "REJECT_JOB", "rejected", fault)

\* exports.cancelJob (the definition module.exports carries)
cancelJob(db, actor, args, fault) ==
    jobAction(db, actor, args.id, JobService_cancel(db.jobs, args.id),
              "CANCEL_JOB", "cancelled", fault)

\* exports.completeJob (the definition module.exports carries)
completeJob(db, actor, args, fault) ==
    jobAction(db, actor, args.id, JobService_complete(db.jobs, args.id),
              "COMPLETE_JOB", "completed", fault)

\* exports.reopenJob (the definition module.exports carries)
reopenJob(db, actor, args, fault) ==
    jobAction(db, actor, args.id, JobService_reopen(db.jobs, args.id),
              "REOPEN_JOB", "open", fault)

JobRoutes == {"approveJob", "rejectJob", "cancelJob", "completeJob", "reopenJob"}

\* JobService.create: insert(jobData) of a row with the given id
JobService_create(jb, id, status) ==
    [jb EXCEPT ![id] = [present |-> TRUE, status |-> status]]

\* the id the insert gives the new job: one no jobs row has
newJobId(db) == CHOOSE j \in JobIds : ~db.jobs[j].present

\* exports.createJob; args.title stands for title, description and location
createJob(db, actor, args, fault) ==
    LET id == newJobId(db) IN
    IF args.title = UNDEF THEN Outcome(400, db)
    ELSE IF fault.kind = "write" THEN Threw("write", db)
    ELSE
      LET db2 == [db EXCEPT !.jobs = JobService_create(db.jobs, id, "open")]
          a == AuditLogService_create(db2.audit_logs,
                 AuditEntry(actor.id, "CREATE_JOB", id, UNDEF, UNDEF, UNDEF), fault)
      IN IF a.threw THEN Threw("audit", db2)
         ELSE Outcome(201, [db2 EXCEPT !.audit_logs = a.audit_logs])

\* exports.updateJob: the columns it can write are title, description,
\* location, budget, hourly_rate, parent_id, caregiver_id and updated_at;
\* status is not among them, and the row modelled has no other column
updateJob(db, actor, args, fault) ==
    LET job == JobService_findById(db, args.id) IN
    IF ~job.present THEN Outcome(404, db)
    ELSE IF fault.kind = "write" THEN Threw("write", db)
    ELSE
      LET a == AuditLogService_create(db.audit_logs,
                 AuditEntry(actor.id, "UPDATE_JOB", args.id, UNDEF, UNDEF, UNDEF), fault)
      IN IF a.threw THEN Threw("audit", db)
         ELSE Outcome(200, [db EXCEPT !.audit_logs = a.audit_logs])

\* exports.updateJobStatus
updateJobStatus(db, actor, args, fault) ==
    LET job == JobService_findById(db, args.id) IN
    IF ~job.present THEN Outcome(404, db)
    ELSE IF args.status \notin {"active", "filled", "cancelled", "completed"} THEN Outcome(400, db)
    ELSE IF fault.kind = "write" THEN Threw("write", db)
    ELSE
      LET db2 == [db EXCEPT !.jobs = JobService_updateStatus(db.jobs, args.id, args.status)]
          a == AuditLogService_create(db2.audit_logs,
                 AuditEntry(actor.id, "UPDATE_JOB_STATUS", args.id, UNDEF, UNDEF, args.status), fault)
      IN IF a.threw THEN Threw("audit", db2)
         ELSE Outcome(200, [db2 EXCEPT !.audit_logs = a.audit_logs])

\* exports.deleteJob: JobService has no delete method, so the call throws
\* a TypeError and the catch answers 500
deleteJob(db, actor, args, fault) ==
    LET job == JobService_findById(db, args.id) IN
    IF ~job.present THEN Outcome(404, db)
    ELSE Threw("write", db)

JobCrudRoutes == {"createJob", "updateJob", "updateJobStatus", "deleteJob"}

\* Number(text) on the query texts tried
Number(text) ==
    CASE text = "-1" -> -1
      [] text = "0" -> 0
      [] text = "1" -> 1
      [] text = "2" -> 2

\* limit of exports.listJobs when the query has none
ListJobsLimit == 20

\* JobService.getJobs: the range(offset, offset + limit - 1) of its query
JobService_getJobs(page, limit) ==
    LET offset == (page - 1) * limit IN <<offset, offset + limit - 1>>

\* exports.listJobs: page and limit of the query, 1 and 20 when missing
listJobs(db, actor, args, fault) ==
    LET page == IF args.page = UNDEF THEN 1 ELSE Number(args.page)
        limit == IF args.limit = UNDEF THEN ListJobsLimit ELSE Number(args.limit)
    IN IF fault.kind = "write" THEN Threw("write", db)
       ELSE [Outcome(200, db) EXCEPT !.range = JobService_getJobs(page, limit)]

-----------------------------------------------------------------------------
(* Users *)

UserStatuses == {"active", "suspended", "banned", "inactive"}

\* days of suspension when the request gives no durationDays
DefaultSuspensionDays == 7

\* A users row: the columns a handler or the sweep reads.  The columns
\* status_reason, status_updated_at, status_updated_by, name, email and phone
\* are stamps and request text that nothing reads back; the row leaves
\* them out.
UserRow(role, status) ==
    [present |-> TRUE, role |-> role, status |-> status,
     suspension_end_date |-> {}, suspension_count |-> 0, last_suspension_at |-> {},
     deleted_at |-> {}, deleted_by |-> {}]

NoUser == [present |-> FALSE, role |-> UNDEF, status |-> UNDEF,
           suspension_end_date |-> {}, suspension_count |-> 0, last_suspension_at |-> {},
           deleted_at |-> {}, deleted_by |-> {}]

\* UserService.findById; a missing row is null
UserService_findById(db, id) ==
    IF id \in UserIds THEN db.users[id] ELSE NoUser

\* UserService.updateStatus(id, status, {reason, adminId}): of the object it
\* is handed it reads reason and adminId only, for the stamps; the columns
\* it writes are status, status_reason, status_updated_at, status_updated_by
UserService_updateStatus(us, id, status, updates) ==
    [us EXCEPT ![id].status = status]

\* UserService.delete: delete().eq("id", id)
UserService_delete(us, id) ==
    [us EXCEPT ![id] = NoUser]

\* UserService.softDelete at time t: the row stays, inactive and stamped.
\* No handler calls it.
UserService_softDelete(us, id, deletedBy, t) ==
    [us EXCEPT ![id].status = "inactive", ![id].deleted_at = {t},
               ![id].deleted_by = {deletedBy}]

\* UserService.create: insert(userData) of a row with the given id
UserService_create(us, id, role, status) ==
    [us EXCEPT ![id] = UserRow(role, status)]

\* UserStatusHistoryService.logChange: one insert; an error is thrown
UserStatusHistoryService_logChange(hist, userId, status, changedBy, failed) ==
    IF failed
    THEN [threw |-> TRUE, user_status_history |-> hist]
    ELSE [threw |-> FALSE, user_status_history |->
            Append(hist, [user_id |-> userId, status |-> status, changed_by |-> changedBy])]

\* sendStatusEmail: the status email goes out to the user, or the call throws
sendStatusEmail(userId, fault) ==
    IF fault.kind = "email"
    THEN [threw |-> TRUE, emails |-> <<>>, range |-> <<>>]
    ELSE [threw |-> FALSE, emails |-> <<userId>>]

\* the `updates` object exports.updateUserStatus builds (lines 797-812)
statusUpdates(user, status, durationDays, adminId, t) ==
    LET days == IF durationDays = {} \/ durationDays = {0}
                THEN DefaultSuspensionDays
                ELSE CHOOSE d \in durationDays : TRUE
    IN IF status = "suspended"
       THEN [adminId |-> adminId,
             keys |-> {"suspension_end_date", "suspension_count", "last_suspension_at"},
             suspension_end_date |-> {t + days},
             suspension_count |-> user.suspension_count + 1,
             last_suspension_at |-> {t}]
       ELSE IF status = "active"
       THEN [adminId |-> adminId, keys |-> {"suspension_end_date"},
             suspension_end_date |-> {}, suspension_count |-> 0, last_suspension_at |-> {}]
       ELSE [adminId |-> adminId, keys |-> {},
             suspension_end_date |-> {}, suspension_count |-> 0, last_suspension_at |-> {}]

\* a status update that lets the error of the email reach its catch
updateUserStatus_EmailThrows(db, actor, args, fault, t) ==
    LET user == UserService_findById(db, args.id) IN
    IF args.status \notin UserStatuses THEN Outcome(400, db)
    ELSE IF ~user.present THEN Outcome(404, db)
    ELSE IF user.role = "admin" /\ actor.role # "superadmin" THEN Outcome(403, db)
    ELSE IF fault.kind = "write" THEN Threw("write", db)
    ELSE
      LET updates == statusUpdates(user, args.status, args.durationDays, actor.id, t)
          db2 == [db EXCEPT !.users = UserService_updateStatus(db.users, args.id, args.status, updates)]
          h == UserStatusHistoryService_logChange(db2.user_status_history, args.id,
                     args.status, actor.id, fault.kind = "history")
          db3 == [db2 EXCEPT !.user_status_history = h.user_status_history]
          a == AuditLogService_create(db3.audit_logs,
                 AuditEntry(actor.id, "UPDATE_USER_STATUS", args.id, user.status, args.status, UNDEF), fault)
          m == sendStatusEmail(args.id, fault)
      IN IF h.threw THEN Threw("history", db2)
         ELSE IF a.threw THEN Threw("audit", db3)
         ELSE IF m.threw THEN Threw("email", [db3 EXCEPT !.audit_logs = a.audit_logs])
         ELSE [Outcome(200, [db3 EXCEPT !.audit_logs = a.audit_logs])
                 EXCEPT !.emails = m.emails,
                        !.failed = IF m.threw THEN "email" ELSE "none"]

\* exports.updateUserStatus at time t
updateUserStatus(db, actor, args, fault, t) ==
    LET user == UserService_findById(db, args.id) IN
    IF args.status \notin UserStatuses THEN Outcome(400, db)
    ELSE IF ~user.present THEN Outcome(404, db)
    ELSE IF user.role = "admin" /\ actor.role # "superadmin" THEN Outcome(403, db)
    ELSE IF fault.kind = "write" THEN Threw("write", db)
    ELSE
      LET updates == statusUpdates(user, args.status, args.durationDays, actor.id, t)
          db2 == [db EXCEPT !.users = UserService_updateStatus(db.users, args.id, args.status, updates)]
          h == UserStatusHistoryService_logChange(db2.user_status_history, args.id,
                     args.status, actor.id, fault.kind = "history")
          db3 == [db2 EXCEPT !.user_status_history = h.user_status_history]
          a == AuditLogService_create(db3.audit_logs,
                 AuditEntry(actor.id, "UPDATE_USER_STATUS", args.id, user.status, args.status, UNDEF), fault)
          m == sendStatusEmail(args.id, fault)
      IN IF h.threw THEN Threw("history", db2)
         ELSE IF a.threw THEN Threw("audit", db3)
         ELSE [Outcome(200, [db3 EXCEPT !.audit_logs = a.audit_logs])
                 EXCEPT !.emails = m.emails,
                        !.failed = IF m.threw THEN "email" ELSE "none"]

\* One pass of the loop of exports.bulkUpdateUserStatus over userIds[i..]:
\* acc.db is the tables so far, acc.results the ids pushed to results,
\* acc.failed the storage call that failed so far.  An error thrown inside
\* an item is caught and the loop goes on.
RECURSIVE bulkLoop(_, _, _, _, _, _)
bulkLoop(acc, actor, userIds, status, fault, i) ==
    IF i > Len(userIds) THEN acc
    ELSE
      LET id == userIds[i]
          db == acc.db
          user == UserService_findById(db, id)
          failsHere(kind) == fault.kind = kind /\ fault.item = i
          db2 == [db EXCEPT !.users =
                    UserService_updateStatus(db.users, id, status, [adminId |-> actor.id])]
          h == UserStatusHistoryService_logChange(db2.user_status_history, id,
                     status, actor.id, failsHere("history"))
          db3 == [db2 EXCEPT !.user_status_history = h.user_status_history]
          a == AuditLogService_create(db3.audit_logs,
                 AuditEntry(actor.id, "BULK_UPDATE_USER_STATUS", id, UNDEF, status, UNDEF),
                 IF failsHere("audit") THEN fault ELSE NoFault)
          next == IF ~user.present THEN acc
                  ELSE IF user.role = "admin" /\ actor.role # "superadmin" THEN acc
                  ELSE IF failsHere("write") THEN [acc EXCEPT !.failed = "write"]
                  ELSE IF h.threw THEN [acc EXCEPT !.db = db2, !.failed = "history"]
                  ELSE IF a.threw THEN [acc EXCEPT !.db = db3, !.failed = "audit"]
                  ELSE [acc EXCEPT !.db = [db3 EXCEPT !.audit_logs = a.audit_logs],
                                   !.results = Append(acc.results, id)]
      IN bulkLoop(next, actor, userIds, status, fault, i + 1)

\* exports.bulkUpdateUserStatus
bulkUpdateUserStatus(db, actor, args, fault) ==
    IF Len(args.userIds) = 0 THEN Outcome(400, db)
    ELSE IF args.status \notin {"active", "suspended", "banned"} THEN Outcome(400, db)
    ELSE
      LET r == bulkLoop([db |-> db, results |-> <<>>, failed |-> "none"],
                        actor, args.userIds, args.status, fault, 1)
      IN [statusCode |-> 200, data |-> r.results, db |-> r.db, failed |-> r.failed,
          emails |-> <<>>, range |-> <<>>]

\* UserService.update with the `updates` object of exports.updateUser: each
\* of role and status is written when the request carries it (and so are
\* email, name and phone)
UserService_update(us, id, args) ==
    [us EXCEPT ![id].role = IF args.role # UNDEF THEN args.role ELSE @,
               ![id].status = IF args.status # UNDEF THEN args.status ELSE @]

\* exports.updateUser
updateUser(db, actor, args, fault) ==
    LET user == UserService_findById(db, args.id) IN
    IF ~user.present THEN Outcome(404, db)
    ELSE IF user.role = "admin" /\ actor.role # "superadmin" THEN Outcome(403, db)
    ELSE
      LET hasUpdates == args.role # UNDEF \/ args.status # UNDEF
          logsChange == args.status # UNDEF /\ args.status # user.status
          db2 == IF hasUpdates
                 THEN [db EXCEPT !.users = UserService_update(db.users, args.id, args)]
                 ELSE db
          h == IF logsChange
               THEN UserStatusHistoryService_logChange(db2.user_status_history, args.id,
                        args.status, actor.id, fault.kind = "history")
               ELSE [threw |-> FALSE, user_status_history |-> db2.user_status_history]
          db3 == [db2 EXCEPT !.user_status_history = h.user_status_history]
          a == AuditLogService_create(db3.audit_logs,
                 AuditEntry(actor.id, "UPDATE_USER", args.id, UNDEF, UNDEF, UNDEF), fault)
      IN IF hasUpdates /\ fault.kind = "write" THEN Threw("write", db)
         ELSE IF h.threw THEN Threw("history", db2)
         ELSE IF a.threw THEN Threw("audit", db3)
         ELSE Outcome(200, [db3 EXCEPT !.audit_logs = a.audit_logs])

\* exports.deleteUser without its check of the target's role
deleteUser_NoGuard(db, actor, args, fault) ==
    LET user == UserService_findById(db, args.id) IN
    IF ~user.present THEN Outcome(404, db)
    ELSE IF fault.kind = "write" THEN Threw("write", db)
    ELSE
      LET db2 == [db EXCEPT !.users = UserService_delete(db.users, args.id)]
          a == AuditLogService_create(db2.audit_logs,
                 AuditEntry(actor.id, "DELETE_USER", args.id, UNDEF, UNDEF, UNDEF), fault)
      IN IF a.threw THEN Threw("audit", db2)
         ELSE Outcome(200, [db2 EXCEPT !.audit_logs = a.audit_logs])

\* exports.deleteUser
deleteUser(db, actor, args, fault) ==
    LET user == UserService_findById(db, args.id) IN
    IF ~user.present THEN Outcome(404, db)
    ELSE IF user.role = "admin" /\ actor.role # "superadmin" THEN Outcome(403, db)
    ELSE IF fault.kind = "write" THEN Threw("write", db)
    ELSE
      LET db2 == [db EXCEPT !.users = UserService_delete(db.users, args.id)]
          a == AuditLogService_create(db2.audit_logs,
                 AuditEntry(actor.id, "DELETE_USER", args.id, UNDEF, UNDEF, UNDEF), fault)
      IN IF a.threw THEN Threw("audit", db2)
         ELSE Outcome(200, [db2 EXCEPT !.audit_logs = a.audit_logs])

\* The id AuthAdminService.createUser gives the new account: one no users
\* row has.
newUserId(db) == CHOOSE u \in UserIds : ~db.users[u].present

\* exports.createUser; role and status default to parent and active
createUser(db, actor, args, fault) ==
    LET role == IF args.role = UNDEF THEN "parent" ELSE args.role
        status == IF args.status = UNDEF THEN "active" ELSE args.status
        id == newUserId(db)
    IN IF args.email = UNDEF THEN Outcome(400, db)
       ELSE IF fault.kind = "write" THEN Threw("write", db)
       ELSE
         LET db2 == [db EXCEPT !.users = UserService_create(db.users, id, role, status)]
             a == AuditLogService_create(db2.audit_logs,
                    AuditEntry(actor.id, "CREATE_USER", id, UNDEF, UNDEF, status), fault)
         IN IF a.threw THEN Threw("audit", db2)
            ELSE Outcome(201, [db2 EXCEPT !.audit_logs = a.audit_logs])

UserRoutes == {"updateUserStatus", "bulkUpdateUserStatus", "updateUser", "deleteUser"}

-----------------------------------------------------------------------------
(* Self-service account routes *)

\* normalizeRole: String(input || "").toLowerCase(), caregiver or else parent
normalizeRole(input) ==
    IF input \in {"caregiver", "Caregiver"} THEN "caregiver" ELSE "parent"

\* exports.updateRole of authSupabase.js: the signed-in user sets its own role
updateRole(db, actor, args, fault) ==
    IF args.role = UNDEF THEN Outcome(400, db)
    ELSE IF fault.kind = "write" \/ ~UserService_findById(db, actor.id).present
    THEN Threw("write", db)
    ELSE Outcome(200, [db EXCEPT !.users =
            UserService_update(db.users, actor.id,
                [NoArgs EXCEPT !.role = normalizeRole(args.role)])])

\* exports.updateProfile of userController.js: role, email, password and id
\* are deleted from the body, and of the rest only name, phone, address,
\* profile_image and children go to UserService.update
updateProfile(db, actor, args, fault) ==
    IF actor.id = UNDEF THEN Outcome(401, db)
    ELSE IF fault.kind = "write" \/ ~UserService_findById(db, actor.id).present
    THEN Threw("write", db)
    ELSE Outcome(200, [db EXCEPT !.users =
            UserService_update(db.users, actor.id,
                [args EXCEPT !.role = UNDEF, !.status = UNDEF])])

\* exports.firebaseSync: the account with the email (args.id, when there is
\* one) gets its name, picture and provider refreshed; without one a new
\* account is created with the normalized role
firebaseSync(db, actor, args, fault) ==
    IF args.email = UNDEF THEN Outcome(400, db)
    ELSE IF fault.kind = "write" THEN Threw("write", db)
    ELSE IF UserService_findById(db, args.id).present
    THEN Outcome(200, [db EXCEPT !.users =
            UserService_update(db.users, args.id, NoArgs)])
    ELSE Outcome(200, [db EXCEPT !.users =
            UserService_create(db.users, args.id,
                normalizeRole(IF args.role = UNDEF THEN "parent" ELSE args.role), "active")])

SelfRoutes == {"updateRole", "updateProfile", "firebaseSync"}

\* a caregiver_profiles row that is missing: null
NoProfile == [present |-> FALSE, verification_status |-> UNDEF, is_active |-> FALSE]

-----------------------------------------------------------------------------
(* Reports *)

ReportIds == {"R1", "R2"}

\* validStatuses of exports.updateReportStatus
ReportStatuses == {"pending", "under_review", "resolved", "dismissed"}

NoReport == [present |-> FALSE, status |-> UNDEF]

\* ReportService.updateStatus: update({status, ...}).eq("id", id) and the
\* row as it is after the update; with no such row single() is an error,
\* which is thrown
ReportService_updateStatus(rp, id, status, fault) ==
    IF fault.kind = "write" \/ ~rp[id].present
    THEN [threw |-> TRUE, user_reports |-> rp, data |-> NoReport]
    ELSE LET rp2 == [rp EXCEPT ![id].status = status]
         IN [threw |-> FALSE, user_reports |-> rp2, data |-> rp2[id]]

\* exports.updateReportStatus
updateReportStatus(db, actor, args, fault) ==
    IF args.status = UNDEF THEN Outcome(400, db)
    ELSE IF args.status \notin ReportStatuses THEN Outcome(400, db)
    ELSE
      LET u == ReportService_updateStatus(db.user_reports, args.id, args.status, fault)
          report == u.data
          db2 == [db EXCEPT !.user_reports = u.user_reports]
          a == AuditLogService_create(db2.audit_logs,
                 AuditEntry(actor.id, "report_status_updated", args.id,
                            report.status, args.status, UNDEF), fault)
      IN IF u.threw THEN Threw("write", db)
         ELSE IF a.threw THEN Threw("audit", db2)
         ELSE Outcome(200, [db2 EXCEPT !.audit_logs = a.audit_logs])

-----------------------------------------------------------------------------
(* Users lists *)

\* the selects a users list can send: the users select with the caregiver
\* embeds, the users select without them, and the two batched selects
SelectNames == {"users+embed", "users", "caregiver_profiles", "caregiver_background_checks"}

\* how a select ends: with rows, with the error of a relationship that
\* cannot be resolved (PGRST200, PGRST201 or "relationship" in the message),
\* or with another error
SelectErrors ==
    {e \in [SelectNames -> {"none", "relationship", "other"}] :
        /\ e["caregiver_profiles"] # "relationship"
        /\ e["caregiver_background_checks"] # "relationship"}

\* users by created_at, newest first
UsersNewestFirst == <<"U2", "U1">>

\* table caregiver_background_checks, which no request here writes: the
\* ids of the checks of each user
caregiver_background_checks == [u \in UserIds |-> IF u = "U1" THEN <<"K1", "K2">> ELSE <<>>]

\* limit of exports.listUsers when the query has none
ListUsersLimit == 20

\* a row of the users select; without the embeds it has neither key
ListedUser(db, u, embed) ==
    [id |-> u, role |-> db.users[u].role,
     caregiver_profiles |-> IF embed THEN db.caregiver_profiles[u] ELSE UNDEF,
     caregiver_background_checks |-> IF embed THEN caregiver_background_checks[u] ELSE UNDEF]

\* what getUsers hands back: the error it threw, if any, or
\* {users, total, page, limit}; `selects` lists the selects it sent and how
\* each ended
GetUsersThrew(error, selects) ==
    [threw |-> error, users |-> <<>>, total |-> 0, page |-> 0, limit |-> 0, selects |-> selects]

\* a merge that attaches no profile and no checks to the rows of baseResult
mergeCaregiverData_Nothing(db, errs, sent, baseResult) ==
    [baseResult EXCEPT
        !.users = [i \in 1..Len(baseResult.users) |->
                      [baseResult.users[i] EXCEPT
                          !.caregiver_profiles = NoProfile,
                          !.caregiver_background_checks = <<>>]],
        !.selects = sent \o baseResult.selects]

\* the part of UserService.getUsers after its call on itself returned
\* baseResult: the two batched selects and the merge
mergeCaregiverData(db, errs, sent, baseResult) ==
    LET userIds == {baseResult.users[i].id : i \in 1..Len(baseResult.users)}
        both == <<[select |-> "caregiver_profiles",
                   error |-> errs["caregiver_profiles"]],
                  [select |-> "caregiver_background_checks",
                   error |-> errs["caregiver_background_checks"]]>>
        profilesResult == {u \in userIds : db.caregiver_profiles[u].present}
        usersWithRelations ==
            [i \in 1..Len(baseResult.users) |->
                LET user == baseResult.users[i]
                IN [user EXCEPT
                      !.caregiver_profiles =
                          IF user.id \in profilesResult
                          THEN db.caregiver_profiles[user.id] ELSE NoProfile,
                      !.caregiver_background_checks =
                          caregiver_background_checks[user.id]]]
    IN IF baseResult.threw # "none" \/ userIds = {}
       THEN [baseResult EXCEPT !.selects = sent \o baseResult.selects]
       ELSE IF errs["caregiver_profiles"] # "none"
       THEN GetUsersThrew(errs["caregiver_profiles"], sent \o baseResult.selects \o both)
       ELSE IF errs["caregiver_background_checks"] # "none"
       THEN GetUsersThrew(errs["caregiver_background_checks"],
                          sent \o baseResult.selects \o both)
       ELSE [baseResult EXCEPT !.users = usersWithRelations,
                               !.selects = sent \o baseResult.selects \o both]

\* UserService.getUsers
RECURSIVE UserService_getUsers(_, _, _, _)
UserService_getUsers(db, q, errs, includeProfile) ==
    LET select == IF includeProfile THEN "users+embed" ELSE "users"
        sent == <<[select |-> select, error |-> errs[select]]>>
        matching == SelectSeq(UsersNewestFirst,
                              LAMBDA u : /\ db.users[u].present
                                         /\ (q.role = UNDEF \/ db.users[u].role = q.role))
        offset == (q.page - 1) * q.limit
        last == IF offset + q.limit < Len(matching) THEN offset + q.limit ELSE Len(matching)
        rows == SubSeq(matching, offset + 1, last)
    IN IF errs[select] # "none"
       THEN IF ~(includeProfile /\ errs[select] = "relationship")
            THEN GetUsersThrew(errs[select], sent)
            ELSE mergeCaregiverData(db, errs, sent, UserService_getUsers(db, q, errs, FALSE))
       ELSE [threw |-> "none",
             users |-> [i \in 1..Len(rows) |-> ListedUser(db, rows[i], includeProfile)],
             total |-> Len(matching), page |-> q.page, limit |-> q.limit, selects |-> sent]

\* exports.listUsers; the data kept is what getUsers handed back
listUsers(db, actor, args, fault) ==
    LET listResult ==
            UserService_getUsers(db,
                [page |-> IF args.page = UNDEF THEN 1 ELSE Number(args.page),
                 limit |-> IF args.limit = UNDEF THEN ListUsersLimit ELSE Number(args.limit),
                 role |-> args.role],
                fault.item, TRUE)
    IN IF listResult.threw # "none"
       THEN [Threw("select", db) EXCEPT !.data = listResult]
       ELSE [Outcome(200, db) EXCEPT !.data = listResult]

-----------------------------------------------------------------------------
(* Caregiver verification *)


\* CaregiverProfileService.getByUserId; a missing row is null
CaregiverProfileService_getByUserId(db, userId) ==
    IF userId \in UserIds THEN db.caregiver_profiles[userId] ELSE NoProfile

\* CaregiverProfileService.updateVerification: the verification object of
\* the row takes the new status
CaregiverProfileService_updateVerification(cp, userId, status) ==
    [cp EXCEPT ![userId].verification_status = status]

\* CaregiverProfileService.update(userId, {is_active: true})
CaregiverProfileService_update(cp, userId) ==
    [cp EXCEPT ![userId].is_active = TRUE]

\* exports.verifyProviderDocuments
verifyProviderDocuments(db, actor, args, fault) ==
    LET profile == CaregiverProfileService_getByUserId(db, args.id) IN
    IF args.status \notin {"pending", "verified", "rejected"} THEN Outcome(400, db)
    ELSE IF ~profile.present THEN Outcome(404, db)
    ELSE IF fault.kind = "write" THEN Threw("write", db)
    ELSE
      LET cp1 == CaregiverProfileService_updateVerification(db.caregiver_profiles, args.id, args.status)
          cp2 == IF args.status = "verified"
                 THEN CaregiverProfileService_update(cp1, args.id) ELSE cp1
          db2 == [db EXCEPT !.caregiver_profiles = cp2]
          a == AuditLogService_create(db2.audit_logs,
                 AuditEntry(actor.id, "VERIFY_PROVIDER_DOCUMENTS", args.id, UNDEF, UNDEF, args.status),
                 fault)
      IN IF a.threw THEN Threw("audit", db2)
         ELSE Outcome(200, [db2 EXCEPT !.audit_logs = a.audit_logs])

-----------------------------------------------------------------------------
(* System settings *)

\* A boolean setting of a request body is {} when the body does not carry
\* it as a boolean, else the singleton of its value.
SettingKeys == {"maintenanceMode", "registrationEnabled",
                "emailVerificationRequired", "backgroundCheckRequired"}

DEFAULT_SYSTEM_SETTINGS ==
    [maintenanceMode |-> FALSE, registrationEnabled |-> TRUE,
     emailVerificationRequired |-> TRUE, backgroundCheckRequired |-> TRUE]

NoSettings == [k \in SettingKeys |-> {}]

\* SystemSettingsService.toSnake: each column is the boolean the body
\* carries, or the default
toSnake(settings) ==
    [k \in SettingKeys |->
        IF settings[k] = {} THEN DEFAULT_SYSTEM_SETTINGS[k]
        ELSE CHOOSE b \in settings[k] : TRUE]

\* SystemSettingsService.updateSettings: upsert of the row with id 1
SystemSettingsService_updateSettings(settings) == {toSnake(settings)}

\* exports.updateSettings
updateSettings(db, actor, args, fault) ==
    IF fault.kind = "write" THEN Threw("write", db)
    ELSE Outcome(200, [db EXCEPT !.system_settings =
                          SystemSettingsService_updateSettings(args.settings)])

\* a sweep that reactivates every row with an expired date, whatever its status
auto_reactivate_expired_suspensions_AnyStatus(us, t) ==
    [id \in DOMAIN us |->
        IF /\ us[id].present
           /\ us[id].suspension_end_date # {}
           /\ \A e \in us[id].suspension_end_date : e < t
        THEN [us[id] EXCEPT !.status = "active", !.suspension_end_date = {}]
        ELSE us[id]]

\* auto_reactivate_expired_suspensions() run at time t: every suspended row
\* whose suspension_end_date is set and before t becomes active with the
\* date cleared
auto_reactivate_expired_suspensions(us, t) ==
    [id \in DOMAIN us |->
        IF /\ us[id].present
           /\ us[id].status = "suspended"
           /\ us[id].suspension_end_date # {}
           /\ \A e \in us[id].suspension_end_date : e < t
        THEN [us[id] EXCEPT !.status = "active", !.suspension_end_date = {}]
        ELSE us[id]]

-----------------------------------------------------------------------------
(* Request text *)

\* A request field that carries text: a JavaScript value that is undefined,
\* a number, or a string given as its characters.
JsUndefined == [type |-> "undefined", chars |-> <<>>]
JsNumber == [type |-> "number", chars |-> <<>>]
JsString(chars) == [type |-> "string", chars |-> chars]

\* String.prototype.trim on the characters of a string
RECURSIVE trimStart(_)
trimStart(chars) ==
    IF chars # <<>> /\ Head(chars) = " " THEN trimStart(Tail(chars)) ELSE chars

RECURSIVE trimEnd(_)
trimEnd(chars) ==
    IF chars # <<>> /\ chars[Len(chars)] = " "
    THEN trimEnd(SubSeq(chars, 1, Len(chars) - 1))
    ELSE chars

trim(chars) == trimEnd(trimStart(chars))

\* trimToString: the trimmed string, "" for anything that is not a string
trimToString(value) ==
    IF value.type = "string" THEN trim(value.chars) ELSE <<>>

\* a nullable text column holding `chars || null`
orNull(chars) == IF chars = <<>> THEN {} ELSE {chars}

-----------------------------------------------------------------------------
(* Payments and payment proofs *)

PaymentIds == {"P1"}

PAYMENT_STATUS_VALUES == {"pending", "paid", "disputed", "refunded"}

\* A payments row: the columns the handlers write.  booking_id is the
\* booking the proofs are looked up by.
PaymentRow(bookingId, status) ==
    [present |-> TRUE, booking_id |-> bookingId, payment_status |-> status,
     notes |-> {}, refund_reason |-> {}, updated_at |-> 0]

NoPayment == [present |-> FALSE, booking_id |-> UNDEF, payment_status |-> UNDEF,
              notes |-> {}, refund_reason |-> {}, updated_at |-> 0]

\* A MIME type is its words; toLowerCase works word by word and
\* startsWith("image/") looks at the first word.  "" has no word.
MimeImage == <<"image/", "png">>
MimeImageUpper == <<"IMAGE/", "PNG">>
MimePdf == <<"application/", "pdf">>
MimeTypes == {<<>>, MimeImage, MimeImageUpper, MimePdf}

toLowerCase(words) ==
    [i \in 1..Len(words) |->
        CASE words[i] = "IMAGE/" -> "image/"
          [] words[i] = "PNG" -> "png"
          [] OTHER -> words[i]]

\* an assessment that does not look at the MIME type
assessProof_NoMimeCheck(proof) ==
    (IF proof.storage_path = UNDEF THEN <<"Missing storage path">> ELSE <<>>)
      \o (IF proof.public_url = UNDEF THEN <<"Missing public URL">> ELSE <<>>)

\* assessProof: the issues of one payment_proofs row
assessProof(proof) ==
    (IF proof.storage_path = UNDEF THEN <<"Missing storage path">> ELSE <<>>)
      \o (IF proof.public_url = UNDEF THEN <<"Missing public URL">> ELSE <<>>)
      \o (IF proof.mime_type = <<>> THEN <<"Unknown MIME type">>
          ELSE IF toLowerCase(proof.mime_type)[1] # "image/"
          THEN <<"Unexpected MIME type">>
          ELSE <<>>)

\* normalizeProof
normalizeProof(proof) ==
    [bookingId |-> proof.booking_id, storagePath |-> proof.storage_path,
     publicUrl |-> proof.public_url, mimeType |-> proof.mime_type,
     suspicious |-> Len(assessProof(proof)) > 0, issues |-> assessProof(proof)]

\* rows in the order of .order("uploaded_at", {ascending: false})
RECURSIVE newestFirst(_)
newestFirst(rows) ==
    IF rows = {} THEN <<>>
    ELSE LET r == CHOOSE x \in rows : \A y \in rows : y.uploaded_at <= x.uploaded_at
         IN <<r>> \o newestFirst(rows \ {r})

\* PaymentProofService.listByBookingId: the normalized rows of one booking
PaymentProofService_listByBookingId(proofs, bookingId) ==
    LET rows == newestFirst({p \in proofs : p.booking_id = bookingId})
    IN [i \in 1..Len(rows) |-> normalizeProof(rows[i])]

\* proofs.flatMap((proof) => proof.issues)
RECURSIVE flatIssues(_)
flatIssues(proofs) ==
    IF proofs = <<>> THEN <<>> ELSE Head(proofs).issues \o flatIssues(Tail(proofs))

\* normalizePaymentRecord
normalizePaymentRecord(id, record, proofs) ==
    LET proofIssues == flatIssues(proofs)
                         \o (IF Len(proofs) = 0 THEN <<"No payment proof uploaded">> ELSE <<>>)
        hasSuspiciousProof == \E i \in 1..Len(proofs) : proofs[i].suspicious
    IN [id |-> id, bookingId |-> record.booking_id,
        paymentStatus |-> record.payment_status, notes |-> record.notes,
        refundReason |-> record.refund_reason, updatedAt |-> record.updated_at,
        proofs |-> proofs, proofIssues |-> proofIssues,
        proofStatus |-> IF hasSuspiciousProof \/ Len(proofIssues) > 0
                        THEN "needs_review" ELSE "ok"]

\* the record PaymentService.findById, updateStatus and refund return for row id
paymentRecord(db, id) ==
    normalizePaymentRecord(id, db.payments[id],
        PaymentProofService_listByBookingId(db.payment_proofs, db.payments[id].booking_id))

\* PaymentService.findById; a missing row is null
PaymentService_findById(db, id) ==
    IF id \in PaymentIds THEN db.payments[id] ELSE NoPayment

\* PaymentService.updateStatus at time t
PaymentService_updateStatus(pm, id, status, notes, t) ==
    [pm EXCEPT ![id].payment_status = status, ![id].notes = notes, ![id].updated_at = t]

\* PaymentService.refund at time t
PaymentService_refund(pm, id, reason, t) ==
    [pm EXCEPT ![id].payment_status = "refunded", ![id].refund_reason = orNull(reason),
               ![id].updated_at = t]

\* trimToString(status).toLowerCase() on the status texts tried
normalizedStatus(status) ==
    CASE status = " PAID " -> "paid"
      [] status = "Refunded" -> "refunded"
      [] status = UNDEF -> ""
      [] OTHER -> status

\* a check that only refuses values that are not strings
ensureNoteProvided_AnyString(note) == note.type # "string"

\* ensureNoteProvided: whether it answers an error
ensureNoteProvided(note) == trimToString(note) = <<>>

\* exports.getPaymentById
getPaymentById(db, actor, args, fault) ==
    IF ~PaymentService_findById(db, args.id).present THEN Outcome(404, db)
    ELSE [Outcome(200, db) EXCEPT !.data = <<paymentRecord(db, args.id)>>]

\* exports.listPayments: every row
listPayments(db, actor, args, fault) ==
    LET ids == {p \in PaymentIds : db.payments[p].present}
        RECURSIVE rows(_)
        rows(S) == IF S = {} THEN <<>>
                   ELSE LET p == CHOOSE x \in S : TRUE
                        IN <<paymentRecord(db, p)>> \o rows(S \ {p})
    IN [Outcome(200, db) EXCEPT !.data = rows(ids)]

\* an update that writes even when the target is the current status
updatePaymentStatus_AlwaysWrites(db, actor, args, fault, t) ==
    LET status == normalizedStatus(args.status)
        existing == PaymentService_findById(db, args.id)
        notes == trimToString(args.notes)
    IN IF status \notin PAYMENT_STATUS_VALUES THEN Outcome(400, db)
       ELSE IF ~existing.present THEN Outcome(404, db)
       ELSE IF status = "paid" /\ ensureNoteProvided(args.notes) THEN Outcome(400, db)
       ELSE IF fault.kind = "write" THEN Threw("write", db)
       ELSE
         LET db2 == [db EXCEPT !.payments =
                       PaymentService_updateStatus(db.payments, args.id, status, orNull(notes), t)]
             a == AuditLogService_create(db2.audit_logs,
                    AuditEntry(actor.id, "UPDATE_PAYMENT_STATUS", args.id,
                               existing.payment_status, status, UNDEF), fault)
         IN IF a.threw THEN Threw("audit", db2)
            ELSE [Outcome(200, [db2 EXCEPT !.audit_logs = a.audit_logs])
                    EXCEPT !.data = <<paymentRecord(db2, args.id)>>]

\* exports.updatePaymentStatus at time t
updatePaymentStatus(db, actor, args, fault, t) ==
    LET status == normalizedStatus(args.status)
        existing == PaymentService_findById(db, args.id)
        notes == trimToString(args.notes)
    IN IF status \notin PAYMENT_STATUS_VALUES THEN Outcome(400, db)
       ELSE IF ~existing.present THEN Outcome(404, db)
       ELSE IF existing.payment_status = status
       THEN [Outcome(200, db) EXCEPT !.data = <<paymentRecord(db, args.id)>>]
       ELSE IF status = "paid" /\ ensureNoteProvided(args.notes) THEN Outcome(400, db)
       ELSE IF fault.kind = "write" THEN Threw("write", db)
       ELSE
         LET db2 == [db EXCEPT !.payments =
                       PaymentService_updateStatus(db.payments, args.id, status, orNull(notes), t)]
             a == AuditLogService_create(db2.audit_logs,
                    AuditEntry(actor.id, "UPDATE_PAYMENT_STATUS", args.id,
                               existing.payment_status, status, UNDEF), fault)
         IN IF a.threw THEN Threw("audit", db2)
            ELSE [Outcome(200, [db2 EXCEPT !.audit_logs = a.audit_logs])
                    EXCEPT !.data = <<paymentRecord(db2, args.id)>>]

\* exports.refundPayment at time t
refundPayment(db, actor, args, fault, t) ==
    LET existing == PaymentService_findById(db, args.id) IN
    IF ~existing.present THEN Outcome(404, db)
    ELSE IF existing.payment_status = "refunded" THEN Outcome(400, db)
    ELSE IF ensureNoteProvided(args.reason) THEN Outcome(400, db)
    ELSE IF fault.kind = "write" THEN Threw("write", db)
    ELSE
      LET db2 == [db EXCEPT !.payments =
                    PaymentService_refund(db.payments, args.id, trimToString(args.reason), t)]
          a == AuditLogService_create(db2.audit_logs,
                 AuditEntry(actor.id, "REFUND_PAYMENT", args.id,
                            existing.payment_status, "refunded", UNDEF), fault)
      IN IF a.threw THEN Threw("audit", db2)
         ELSE [Outcome(200, [db2 EXCEPT !.audit_logs = a.audit_logs])
                 EXCEPT !.data = <<paymentRecord(db2, args.id)>>]

PaymentRoutes == {"listPayments", "getPaymentById", "updatePaymentStatus", "refundPayment"}

-----------------------------------------------------------------------------
(* Authentication and authorization of the admin router *)

\* the ids the identity provider issues tokens for; X1 has no users row
AuthUserIds == UserIds \cup {"X1"}

\* The Authorization header of a request: none; "Bearer " with nothing after
\* it; a token holding "mock-signature"; a token the identity provider
\* rejects; a token it resolves to the auth user uid.
Credentials ==
    {[kind |-> k, uid |-> UNDEF] : k \in {"none", "empty", "mock", "invalid"}}
      \cup {[kind |-> "valid", uid |-> u] : u \in AuthUserIds}

\* The headers of a request the middleware reads, and whether the profile
\* query of this request fails with an error other than "no rows".
HttpRequests ==
    [bypass : BOOLEAN, devRole : {UNDEF, "admin"}, cred : Credentials, profileError : {FALSE}]
      \cup [bypass : BOOLEAN, devRole : {UNDEF}, cred : {[kind |-> "valid", uid |-> "U2"]},
            profileError : {TRUE}]

\* the request of a step that starts behind the router
NoHttp == [bypass |-> FALSE, devRole |-> UNDEF,
           cred |-> [kind |-> "none", uid |-> UNDEF], profileError |-> FALSE]

NoReqUser == [id |-> UNDEF, role |-> UNDEF]

\* no request is being answered
NoRequest == [route |-> "none", http |-> NoHttp, actor |-> NoReqUser, args |-> NoArgs, at |-> 0]
NoResponse ==
    [statusCode |-> 0, data |-> <<>>, handled |-> FALSE, failed |-> "none", emails |-> <<>>, range |-> <<>>]

Passed(user) == [next |-> TRUE, statusCode |-> 0, user |-> user]
Refused(code) == [next |-> FALSE, statusCode |-> code, user |-> NoReqUser]

\* isDevBypass
isDevBypass(http, e) == e.ALLOW_DEV_BYPASS /\ http.bypass

\* authenticate
authenticate(http, e, db) ==
    IF e.ALLOW_DEV_BYPASS /\ http.bypass
    THEN Passed([id |-> "dev-bypass-uid",
                 role |-> IF http.devRole \in {UNDEF, "caregiver"} THEN "caregiver" ELSE "parent"])
    ELSE IF e.ALLOW_DEV_BYPASS /\ http.cred.kind = "none"
    THEN Passed([id |-> "dev-mock-user",
                 role |-> IF http.devRole = UNDEF THEN "caregiver" ELSE http.devRole])
    ELSE IF http.cred.kind = "none" THEN Refused(401)
    ELSE IF http.cred.kind = "empty" THEN Refused(401)
    ELSE IF e.NODE_ENV = "development" /\ http.cred.kind = "mock"
    THEN Passed([id |-> "mock-user-123", role |-> "parent"])
    ELSE IF http.cred.kind # "valid" THEN Refused(401)
    ELSE IF http.profileError THEN Refused(401)
    ELSE
      LET profile == UserService_findById(db, http.cred.uid) IN
      Passed([id |-> http.cred.uid,
              role |-> IF profile.present /\ profile.role # UNDEF
                       THEN profile.role ELSE "parent"])

\* authorize(roles) letting every authenticated user through
authorize_AnyRole(roles, user) ==
    IF user = NoReqUser THEN Refused(401)
    ELSE Passed(user)

\* authorize(roles)
authorize(roles, user) ==
    IF user = NoReqUser THEN Refused(401)
    ELSE IF roles # {} /\ user.role \notin roles THEN Refused(403)
    ELSE Passed(user)

\* router.use of the admin routes
adminRouterUse(http, e, db) ==
    IF isDevBypass(http, e) THEN Passed([id |-> UNDEF, role |-> "admin"])
    ELSE
      LET a == authenticate(http, e, db) IN
      IF a.next THEN authorize({"admin", "superadmin"}, a.user) ELSE a

-----------------------------------------------------------------------------
(* Requests *)

\* the handler adminRoutes.js binds to each route
Dispatch(route, db, actor, args, fault, t) ==
    CASE route = "approveJob" -> approveJob(db, actor, args, fault)
      [] route = "rejectJob" -> rejectJob(db, actor, args, fault)
      [] route = "cancelJob" -> cancelJob(db, actor, args, fault)
      [] route = "completeJob" -> completeJob(db, actor, args, fault)
      [] route = "reopenJob" -> reopenJob(db, actor, args, fault)
      [] route = "updateBookingStatus" -> updateBookingStatus(db, actor, args, fault)
      [] route = "confirmBooking" -> confirmBooking(db, actor, args, fault)
      [] route = "startBooking" -> startBooking(db, actor, args, fault)
      [] route = "completeBooking" -> completeBooking(db, actor, args, fault)
      [] route = "cancelBooking" -> cancelBooking(db, actor, args, fault)
      [] route = "updateUserStatus" -> updateUserStatus(db, actor, args, fault, t)
      [] route = "bulkUpdateUserStatus" -> bulkUpdateUserStatus(db, actor, args, fault)
      [] route = "updateUser" -> updateUser(db, actor, args, fault)
      [] route = "deleteUser" -> deleteUser(db, actor, args, fault)
      [] route = "createUser" -> createUser(db, actor, args, fault)
      [] route = "createJob" -> createJob(db, actor, args, fault)
      [] route = "updateJob" -> updateJob(db, actor, args, fault)
      [] route = "updateJobStatus" -> updateJobStatus(db, actor, args, fault)
      [] route = "deleteJob" -> deleteJob(db, actor, args, fault)
      [] route = "listPayments" -> listPayments(db, actor, args, fault)
      [] route = "getPaymentById" -> getPaymentById(db, actor, args, fault)
      [] route = "updatePaymentStatus" -> updatePaymentStatus(db, actor, args, fault, t)
      [] route = "refundPayment" -> refundPayment(db, actor, args, fault, t)
      [] route = "verifyProviderDocuments" -> verifyProviderDocuments(db, actor, args, fault)
      [] route = "updateSettings" -> updateSettings(db, actor, args, fault)
      [] route = "listJobs" -> listJobs(db, actor, args, fault)
      [] route = "updateReportStatus" -> updateReportStatus(db, actor, args, fault)
      [] route = "listUsers" -> listUsers(db, actor, args, fault)
      [] route = "updateRole" -> updateRole(db, actor, args, fault)
      [] route = "updateProfile" -> updateProfile(db, actor, args, fault)
      [] route = "firebaseSync" -> firebaseSync(db, actor, args, fault)

\* the durationDays values tried: none, and 1 day
DurationChoices == {{}, {1}}

\* the userIds lists tried
IdLists == {<<>>, <<"U1">>, <<"U2", "U1">>, <<"U1", "U1">>}

\* the notes and reason values tried: missing, a number, "", " ", " x "
NoteValues == {JsUndefined, JsNumber, JsString(<<>>), JsString(<<" ">>),
               JsString(<<" ", "x", " ">>)}

\* the settings bodies tried: empty, one key, another key, two keys
SettingsBodies ==
    {NoSettings,
     [NoSettings EXCEPT !.maintenanceMode = {TRUE}],
     [NoSettings EXCEPT !.registrationEnabled = {FALSE}],
     [NoSettings EXCEPT !.maintenanceMode = {TRUE}, !.registrationEnabled = {FALSE}]}

\* the request bodies and parameters tried on each route
ArgsOf(route) ==
    CASE route \in JobRoutes -> {[NoArgs EXCEPT !.id = j] : j \in JobIds}
      [] route = "updateBookingStatus" ->
           {[NoArgs EXCEPT !.id = b, !.status = st] :
               b \in BookingIds, st \in BookingStatuses \cup {"in_progress"}}
      [] route \in BookingRoutes \ {"updateBookingStatus"} ->
           {[NoArgs EXCEPT !.id = b] : b \in BookingIds}
      [] route = "updateUserStatus" ->
           {[NoArgs EXCEPT !.id = u, !.status = st] :
               u \in UserIds, st \in {"active", "deleted"}}
             \cup {[NoArgs EXCEPT !.id = u, !.status = "suspended", !.durationDays = d] :
                    u \in UserIds, d \in DurationChoices}
      [] route = "bulkUpdateUserStatus" ->
           {[NoArgs EXCEPT !.userIds = ids, !.status = st] :
               ids \in IdLists, st \in {"suspended", "inactive"}}
      [] route = "updateUser" ->
           {[NoArgs EXCEPT !.id = u, !.role = r, !.status = st] :
               u \in UserIds, r \in {UNDEF, "admin"}, st \in {UNDEF, "deleted"}}
      [] route = "deleteUser" -> {[NoArgs EXCEPT !.id = u] : u \in UserIds}
      [] route = "createUser" ->
           {[NoArgs EXCEPT !.email = e, !.role = r, !.status = st] :
               e \in {UNDEF, "new@example.com"}, r \in {UNDEF, "admin"},
               st \in {UNDEF, "pending"}}
      [] route = "createJob" -> {[NoArgs EXCEPT !.title = ti] : ti \in {UNDEF, "Sitter"}}
      [] route \in {"updateJob", "deleteJob"} -> {[NoArgs EXCEPT !.id = j] : j \in JobIds}
      [] route = "updateJobStatus" ->
           {[NoArgs EXCEPT !.id = j, !.status = st] :
               j \in JobIds, st \in JobStatuses \cup {"pending"}}
      [] route = "listPayments" -> {NoArgs}
      [] route = "listUsers" ->
           {[NoArgs EXCEPT !.page = pg, !.limit = lm, !.role = r] :
               pg \in {UNDEF, "1", "2"}, lm \in {UNDEF, "1", "2"}, r \in {UNDEF, "parent"}}
      [] route = "updateReportStatus" ->
           {[NoArgs EXCEPT !.id = r, !.status = st] :
               r \in ReportIds, st \in ReportStatuses \cup {UNDEF, "closed"}}
      [] route = "listJobs" ->
           {[NoArgs EXCEPT !.page = pg, !.limit = lm] :
               pg \in {UNDEF, "-1", "0", "1", "2"}, lm \in {UNDEF, "-1", "0", "1", "2"}}
      [] route = "getPaymentById" -> {[NoArgs EXCEPT !.id = p] : p \in PaymentIds}
      [] route = "updatePaymentStatus" ->
           {[NoArgs EXCEPT !.id = p, !.status = st, !.notes = n] :
               p \in PaymentIds, st \in PAYMENT_STATUS_VALUES \cup {" PAID ", "void"},
               n \in NoteValues}
      [] route = "refundPayment" ->
           {[NoArgs EXCEPT !.id = p, !.reason = n] : p \in PaymentIds, n \in NoteValues}
      [] route = "verifyProviderDocuments" ->
           {[NoArgs EXCEPT !.id = u, !.status = st] :
               u \in UserIds, st \in {"verified", "rejected", "approved"}}
      [] route = "updateSettings" ->
           {[NoArgs EXCEPT !.settings = b] : b \in SettingsBodies}
      [] route \in {"updateRole", "updateProfile"} ->
           {[NoArgs EXCEPT !.role = r] : r \in {UNDEF, "Caregiver", "admin"}}
      [] route = "firebaseSync" ->
           {[NoArgs EXCEPT !.id = u, !.email = e, !.role = r] :
               u \in UserIds, e \in {UNDEF, "new@example.com"},
               r \in {UNDEF, "Caregiver", "admin"}}

\* the storage failures tried on each route
FaultsOf(route) ==
    CASE route = "updateUserStatus" ->
           {NoFault, Fault("write", 1), Fault("history", 1), Fault("email", 1)}
      [] route = "bulkUpdateUserStatus" -> {NoFault, Fault("write", 1), Fault("audit", 2)}
      [] route \in {"updateUser", "deleteUser", "createUser"} -> {NoFault, Fault("write", 1)}
      [] route \in PaymentRoutes -> {NoFault, Fault("write", 1)}
      [] route = "listUsers" -> {Fault("select", e) : e \in SelectErrors}
      [] OTHER -> {Fault(k, 1) : k \in {"none", "write", "audit"}}

\* the users tried as req.user behind the router; only the users routes
\* read req.user.role
ActorsOf(route) == IF route \in UserRoutes THEN Actors ELSE {Admin1}

\* The end of a request whose handler came to the outcome o: the tables
\* take its writes, the response is recorded.
Answer(cap, route, http, actor, args, o) ==
    /\ req.route = "none"
    /\ Len(o.db.audit_logs) <= cap
    /\ Len(o.db.user_status_history) <= cap
    /\ users' = o.db.users
    /\ jobs' = o.db.jobs
    /\ bookings' = o.db.bookings
    /\ payments' = o.db.payments
    /\ payment_proofs' = o.db.payment_proofs
    /\ caregiver_profiles' = o.db.caregiver_profiles
    /\ system_settings' = o.db.system_settings
    /\ audit_logs' = o.db.audit_logs
    /\ user_status_history' = o.db.user_status_history
    /\ user_reports' = o.db.user_reports
    /\ req' = [route |-> route, http |-> http, actor |-> actor, args |-> args, at |-> now]
    /\ res' = [statusCode |-> o.statusCode, data |-> o.data, handled |-> TRUE,
               failed |-> o.failed, emails |-> o.emails,
               range |-> o.range]
    /\ snap' = DB
    /\ lastSweep' = {}
    /\ UNCHANGED <<now, env, calls>>

\* One request on `route` that the router let through as `actor`, in a
\* run that follows the logs up to `cap` rows
ServeUpTo(cap, route, http, actor, args, fault) ==
    Answer(cap, route, http, actor, args, Dispatch(route, DB, actor, args, fault, now))

\* One request on `route` that the router let through as `actor`
Serve(route, http, actor, args, fault) ==
    ServeUpTo(MaxLog, route, http, actor, args, fault)

\* One request on `route` that the router answered itself with `code`
Refuse(route, http, args, code) ==
    /\ req.route = "none"
    /\ req' = [route |-> route, http |-> http, actor |-> NoReqUser, args |-> args, at |-> now]
    /\ res' = [statusCode |-> code, data |-> <<>>, handled |-> FALSE, failed |-> "none",
               emails |-> <<>>, range |-> <<>>]
    /\ snap' = DB
    /\ lastSweep' = {}
    /\ UNCHANGED <<users, jobs, bookings, payments, payment_proofs, caregiver_profiles,
                 system_settings, audit_logs, user_status_history, now, env, calls, user_reports>>

\* POST /jobs/:jobId/approve from an admin
ApproveJob ==
    \E actor \in ActorsOf("approveJob"), args \in ArgsOf("approveJob"), fault \in FaultsOf("approveJob") :
        /\ actor.role \in {"admin", "superadmin"}
        /\ Serve("approveJob", NoHttp, actor, args, fault)

\* POST /jobs/:jobId/reject from an admin
RejectJob ==
    \E actor \in ActorsOf("rejectJob"), args \in ArgsOf("rejectJob"), fault \in FaultsOf("rejectJob") :
        /\ actor.role \in {"admin", "superadmin"}
        /\ Serve("rejectJob", NoHttp, actor, args, fault)

\* POST /jobs/:jobId/cancel from an admin
CancelJob ==
    \E actor \in ActorsOf("cancelJob"), args \in ArgsOf("cancelJob"), fault \in FaultsOf("cancelJob") :
        /\ actor.role \in {"admin", "superadmin"}
        /\ Serve("cancelJob", NoHttp, actor, args, fault)

\* POST /jobs/:jobId/complete from an admin
CompleteJob ==
    \E actor \in ActorsOf("completeJob"), args \in ArgsOf("completeJob"), fault \in FaultsOf("completeJob") :
        /\ actor.role \in {"admin", "superadmin"}
        /\ Serve("completeJob", NoHttp, actor, args, fault)

\* POST /jobs/:jobId/reopen from an admin
ReopenJob ==
    \E actor \in ActorsOf("reopenJob"), args \in ArgsOf("reopenJob"), fault \in FaultsOf("reopenJob") :
        /\ actor.role \in {"admin", "superadmin"}
        /\ Serve("reopenJob", NoHttp, actor, args, fault)

\* PATCH /bookings/:bookingId/status from an admin
UpdateBookingStatus ==
    \E actor \in ActorsOf("updateBookingStatus"), args \in ArgsOf("updateBookingStatus"), fault \in FaultsOf("updateBookingStatus") :
        /\ actor.role \in {"admin", "superadmin"}
        /\ Serve("updateBookingStatus", NoHttp, actor, args, fault)

\* POST /bookings/:bookingId/confirm from an admin
ConfirmBooking ==
    \E actor \in ActorsOf("confirmBooking"), args \in ArgsOf("confirmBooking"), fault \in FaultsOf("confirmBooking") :
        /\ actor.role \in {"admin", "superadmin"}
        /\ Serve("confirmBooking", NoHttp, actor, args, fault)

\* POST /bookings/:bookingId/start from an admin
StartBooking ==
    \E actor \in ActorsOf("startBooking"), args \in ArgsOf("startBooking"), fault \in FaultsOf("startBooking") :
        /\ actor.role \in {"admin", "superadmin"}
        /\ Serve("startBooking", NoHttp, actor, args, fault)

\* POST /bookings/:bookingId/complete from an admin
CompleteBooking ==
    \E actor \in ActorsOf("completeBooking"), args \in ArgsOf("completeBooking"), fault \in FaultsOf("completeBooking") :
        /\ actor.role \in {"admin", "superadmin"}
        /\ Serve("completeBooking", NoHttp, actor, args, fault)

\* POST /bookings/:bookingId/cancel from an admin
CancelBooking ==
    \E actor \in ActorsOf("cancelBooking"), args \in ArgsOf("cancelBooking"), fault \in FaultsOf("cancelBooking") :
        /\ actor.role \in {"admin", "superadmin"}
        /\ Serve("cancelBooking", NoHttp, actor, args, fault)

\* PATCH /users/:userId/status from an admin
UpdateUserStatus ==
    \E actor \in ActorsOf("updateUserStatus"), args \in ArgsOf("updateUserStatus"), fault \in FaultsOf("updateUserStatus") :
        /\ actor.role \in {"admin", "superadmin"}
        /\ Serve("updateUserStatus", NoHttp, actor, args, fault)

\* POST /users/bulk/status from an admin
BulkUpdateUserStatus ==
    \E actor \in ActorsOf("bulkUpdateUserStatus"), args \in ArgsOf("bulkUpdateUserStatus"), fault \in FaultsOf("bulkUpdateUserStatus") :
        /\ actor.role \in {"admin", "superadmin"}
        /\ Serve("bulkUpdateUserStatus", NoHttp, actor, args, fault)

\* PUT /users/:userId from an admin
UpdateUser ==
    \E actor \in ActorsOf("updateUser"), args \in ArgsOf("updateUser"), fault \in FaultsOf("updateUser") :
        /\ actor.role \in {"admin", "superadmin"}
        /\ Serve("updateUser", NoHttp, actor, args, fault)

\* DELETE /users/:userId from an admin
DeleteUser ==
    \E actor \in ActorsOf("deleteUser"), args \in ArgsOf("deleteUser"), fault \in FaultsOf("deleteUser") :
        /\ actor.role \in {"admin", "superadmin"}
        /\ Serve("deleteUser", NoHttp, actor, args, fault)

\* POST /users from an admin; the new account gets an id no row has
CreateUser ==
    \E actor \in ActorsOf("createUser"), args \in ArgsOf("createUser"), fault \in FaultsOf("createUser") :
        /\ actor.role \in {"admin", "superadmin"}
        /\ \E u \in UserIds : ~users[u].present
        /\ Serve("createUser", NoHttp, actor, args, fault)

\* POST /jobs from an admin; the new job gets an id no row has
CreateJob ==
    \E actor \in ActorsOf("createJob"), args \in ArgsOf("createJob"), fault \in FaultsOf("createJob") :
        /\ actor.role \in {"admin", "superadmin"}
        /\ \E j \in JobIds : ~jobs[j].present
        /\ Serve("createJob", NoHttp, actor, args, fault)

\* PUT /jobs/:jobId from an admin
UpdateJob ==
    \E actor \in ActorsOf("updateJob"), args \in ArgsOf("updateJob"), fault \in FaultsOf("updateJob") :
        /\ actor.role \in {"admin", "superadmin"}
        /\ Serve("updateJob", NoHttp, actor, args, fault)

\* PATCH /jobs/:jobId/status from an admin
UpdateJobStatus ==
    \E actor \in ActorsOf("updateJobStatus"), args \in ArgsOf("updateJobStatus"), fault \in FaultsOf("updateJobStatus") :
        /\ actor.role \in {"admin", "superadmin"}
        /\ Serve("updateJobStatus", NoHttp, actor, args, fault)

\* DELETE /jobs/:jobId from an admin
DeleteJob ==
    \E actor \in ActorsOf("deleteJob"), args \in ArgsOf("deleteJob"), fault \in FaultsOf("deleteJob") :
        /\ actor.role \in {"admin", "superadmin"}
        /\ Serve("deleteJob", NoHttp, actor, args, fault)

\* GET /users from an admin
ListUsers ==
    \E actor \in ActorsOf("listUsers"), args \in ArgsOf("listUsers"), fault \in FaultsOf("listUsers") :
        /\ actor.role \in {"admin", "superadmin"}
        /\ Serve("listUsers", NoHttp, actor, args, fault)

\* PUT /reports/:id/status from an admin
UpdateReportStatus ==
    \E actor \in ActorsOf("updateReportStatus"), args \in ArgsOf("updateReportStatus"),
       fault \in FaultsOf("updateReportStatus") :
        /\ actor.role \in {"admin", "superadmin"}
        /\ Serve("updateReportStatus", NoHttp, actor, args, fault)

\* GET /jobs from an admin
ListJobs ==
    \E actor \in ActorsOf("listJobs"), args \in ArgsOf("listJobs"), fault \in FaultsOf("listJobs") :
        /\ actor.role \in {"admin", "superadmin"}
        /\ Serve("listJobs", NoHttp, actor, args, fault)

\* GET /payments from an admin
ListPayments ==
    \E actor \in ActorsOf("listPayments"), args \in ArgsOf("listPayments"), fault \in FaultsOf("listPayments") :
        /\ actor.role \in {"admin", "superadmin"}
        /\ Serve("listPayments", NoHttp, actor, args, fault)

\* GET /payments/:id from an admin
GetPaymentById ==
    \E actor \in ActorsOf("getPaymentById"), args \in ArgsOf("getPaymentById"), fault \in FaultsOf("getPaymentById") :
        /\ actor.role \in {"admin", "superadmin"}
        /\ Serve("getPaymentById", NoHttp, actor, args, fault)

\* PATCH /payments/:paymentId/status from an admin
UpdatePaymentStatus ==
    \E actor \in ActorsOf("updatePaymentStatus"), args \in ArgsOf("updatePaymentStatus"), fault \in FaultsOf("updatePaymentStatus") :
        /\ actor.role \in {"admin", "superadmin"}
        /\ Serve("updatePaymentStatus", NoHttp, actor, args, fault)

\* POST /payments/:paymentId/refund from an admin
RefundPayment ==
    \E actor \in ActorsOf("refundPayment"), args \in ArgsOf("refundPayment"), fault \in FaultsOf("refundPayment") :
        /\ actor.role \in {"admin", "superadmin"}
        /\ Serve("refundPayment", NoHttp, actor, args, fault)

\* caregiver verification by an admin
VerifyProviderDocuments ==
    \E actor \in ActorsOf("verifyProviderDocuments"), args \in ArgsOf("verifyProviderDocuments"), fault \in FaultsOf("verifyProviderDocuments") :
        /\ actor.role \in {"admin", "superadmin"}
        /\ Serve("verifyProviderDocuments", NoHttp, actor, args, fault)

\* PATCH /settings from an admin
UpdateSettings ==
    \E actor \in ActorsOf("updateSettings"), args \in ArgsOf("updateSettings"), fault \in FaultsOf("updateSettings") :
        /\ actor.role \in {"admin", "superadmin"}
        /\ Serve("updateSettings", NoHttp, actor, args, fault)

\* The payment_proofs rows tried.  All but the last belong to booking B1:
\* a well-formed image, a well-formed image with an upper-case MIME type, a
\* PDF without storage path, an image without public URL or MIME type.
ProofRows ==
    {[id |-> "R1", booking_id |-> "B1", storage_path |-> "proofs/r1.png",
      public_url |-> "https://cdn/r1.png", mime_type |-> MimeImage, uploaded_at |-> 1],
     [id |-> "R2", booking_id |-> "B1", storage_path |-> "proofs/r2.png",
      public_url |-> "https://cdn/r2.png", mime_type |-> MimeImageUpper, uploaded_at |-> 2],
     [id |-> "R3", booking_id |-> "B1", storage_path |-> "proofs/r3.pdf",
      public_url |-> "https://cdn/r3.pdf", mime_type |-> MimePdf, uploaded_at |-> 3],
     [id |-> "R4", booking_id |-> "B1", storage_path |-> UNDEF,
      public_url |-> UNDEF, mime_type |-> <<>>, uploaded_at |-> 4],
     [id |-> "R5", booking_id |-> "B9", storage_path |-> UNDEF,
      public_url |-> UNDEF, mime_type |-> <<>>, uploaded_at |-> 5]}

\* a client uploads a payment proof, between two admin requests
UploadProof ==
    /\ req.route = "none"
    /\ \E r \in ProofRows \ payment_proofs :
          /\ payment_proofs' = payment_proofs \cup {r}
          /\ snap' = [snap EXCEPT !.payment_proofs = payment_proofs \cup {r}]
    /\ UNCHANGED <<users, jobs, bookings, payments, caregiver_profiles, system_settings,
                   audit_logs, user_status_history, now, env, calls, req, res, lastSweep, user_reports>>

\* a payment proof is removed, between two admin requests
RemoveProof ==
    /\ req.route = "none"
    /\ \E r \in payment_proofs :
          /\ payment_proofs' = payment_proofs \ {r}
          /\ snap' = [snap EXCEPT !.payment_proofs = payment_proofs \ {r}]
    /\ UNCHANGED <<users, jobs, bookings, payments, caregiver_profiles, system_settings,
                   audit_logs, user_status_history, now, env, calls, req, res, lastSweep, user_reports>>

\* the role request of a signed-in account; req.user is the account's row
UpdateRole ==
    \E u \in UserIds, args \in ArgsOf("updateRole"), fault \in {NoFault, Fault("write", 1)} :
        /\ users[u].present
        /\ Serve("updateRole", NoHttp, [id |-> u, role |-> users[u].role], args, fault)

\* the profile request of a signed-in account
UpdateProfile ==
    \E u \in UserIds, args \in ArgsOf("updateProfile"), fault \in {NoFault, Fault("write", 1)} :
        /\ users[u].present
        /\ Serve("updateProfile", NoHttp, [id |-> u, role |-> users[u].role], args, fault)

\* the synchronisation of a social sign-in; nobody is signed in yet
FirebaseSync ==
    \E args \in ArgsOf("firebaseSync"), fault \in {NoFault, Fault("write", 1)} :
        Serve("firebaseSync", NoHttp, NoReqUser, args, fault)

\* the number of status writes the calls have stored so far
WritesStored == Cardinality({c \in Callers : calls[c].writeNo > 0})

\* a call starts: findById and the allow-list check
ReadBooking ==
    \E c \in Callers, route \in BookingRoutes \ {"updateBookingStatus"}, id \in BookingIds :
        LET booking == bookings[id]
            code == IF ~booking.present THEN 404
                    ELSE IF booking.status \notin BookingTransition(route).allowedCurrentStatuses
                    THEN 400 ELSE 0
        IN /\ calls[c].pc = "idle"
           /\ calls' = [calls EXCEPT ![c] =
                  [pc |-> IF code = 0 THEN "read" ELSE "done", route |-> route, id |-> id,
                   booking |-> booking, writesSeen |-> WritesStored, writeNo |-> 0,
                   statusCode |-> code]]
           /\ UNCHANGED <<users, jobs, bookings, payments, payment_proofs, caregiver_profiles,
                          system_settings, audit_logs, user_status_history, now, env,
                          req, res, snap, lastSweep, user_reports>>

\* a call stores its status
WriteBooking ==
    \E c \in Callers :
        /\ calls[c].pc = "read"
        /\ bookings' = writeBookingStatus(bookings, calls[c])
        /\ calls' = [calls EXCEPT ![c].pc = "written", ![c].writeNo = WritesStored + 1]
        /\ UNCHANGED <<users, jobs, payments, payment_proofs, caregiver_profiles,
                       system_settings, audit_logs, user_status_history, now, env,
                       req, res, snap, lastSweep, user_reports>>

\* a call appends its audit entry and returns the booking
AuditBooking ==
    \E c \in Callers :
        /\ calls[c].pc = "written"
        /\ audit_logs' = AuditLogService_create(audit_logs,
                             AuditEntry(c, BookingTransition(calls[c].route).auditAction,
                                        calls[c].id, calls[c].booking.status,
                                        BookingTransition(calls[c].route).targetStatus, UNDEF),
                             NoFault).audit_logs
        /\ calls' = [calls EXCEPT ![c].pc = "done", ![c].statusCode = 200]
        /\ UNCHANGED <<users, jobs, bookings, payments, payment_proofs, caregiver_profiles,
                       system_settings, user_status_history, now, env,
                       req, res, snap, lastSweep, user_reports>>

\* the response is sent and the request is over
Respond ==
    /\ req.route # "none"
    /\ req' = NoRequest
    /\ res' = NoResponse
    /\ snap' = DB
    /\ lastSweep' = {}
    /\ UNCHANGED <<users, jobs, bookings, payments, payment_proofs, caregiver_profiles,
                 system_settings, audit_logs, user_status_history, now, env, calls, user_reports>>

\* a day passes
Tick ==
    /\ now < MaxTime
    /\ now' = now + 1
    /\ UNCHANGED <<users, jobs, bookings, payments, payment_proofs, caregiver_profiles,
                 system_settings, audit_logs, user_status_history, env, calls, req, res, snap, lastSweep, user_reports>>

\* the scheduled run of auto_reactivate_expired_suspensions()
Sweep ==
    /\ users' = auto_reactivate_expired_suspensions(users, now)
    /\ lastSweep' = {now}
    /\ UNCHANGED <<jobs, bookings, payments, payment_proofs, caregiver_profiles,
                 system_settings, audit_logs, user_status_history, now, env, calls, req, res, snap, user_reports>>

\* the routes tried through the router
RoutedRoutes == {"approveJob", "cancelBooking", "updateUserStatus", "updateUser", "deleteUser"}

\* the one request body tried on each route through the router
RoutedArgs(route) ==
    CASE route \in JobRoutes -> [NoArgs EXCEPT !.id = "J1"]
      [] route = "updateBookingStatus" -> [NoArgs EXCEPT !.id = "B1", !.status = "completed"]
      [] route \in BookingRoutes \ {"updateBookingStatus"} -> [NoArgs EXCEPT !.id = "B1"]
      [] route = "updateUserStatus" -> [NoArgs EXCEPT !.id = "U1", !.status = "suspended"]
      [] route = "bulkUpdateUserStatus" ->
           [NoArgs EXCEPT !.userIds = <<"U1">>, !.status = "suspended"]
      [] route = "updateUser" -> [NoArgs EXCEPT !.id = "U1", !.role = "admin"]
      [] route = "deleteUser" -> [NoArgs EXCEPT !.id = "U1"]

\* any request to the admin router: the middleware, then the handler
AdminRequest ==
    \E http \in HttpRequests, route \in RoutedRoutes :
        LET g == adminRouterUse(http, env, DB) IN
        IF g.next
        THEN Serve(route, http, g.user, RoutedArgs(route), NoFault)
        ELSE Refuse(route, http, RoutedArgs(route), g.statusCode)

-----------------------------------------------------------------------------
(* Initial states and specifications *)

ProductionEnv == [ALLOW_DEV_BYPASS |-> FALSE, NODE_ENV |-> "production"]

SomeUsers == [u \in UserIds |-> UserRow(IF u = "U1" THEN "parent" ELSE "admin", "active")]
SomeJobs == [j \in JobIds |-> [present |-> TRUE, status |-> "active"]]
SomeBookings == [b \in BookingIds |-> [present |-> TRUE, status |-> "pending"]]

SomePayments == [p \in PaymentIds |-> PaymentRow("B1", "pending")]
SomeReports == [r \in ReportIds |-> [present |-> TRUE, status |-> "pending"]]
SomeProfiles == [u \in UserIds |-> IF u = "U1"
                                   THEN [present |-> TRUE, verification_status |-> "pending",
                                         is_active |-> FALSE]
                                   ELSE NoProfile]

InitCommon ==
    /\ payment_proofs = {}
    /\ caregiver_profiles = SomeProfiles
    /\ system_settings = {}
    /\ audit_logs = <<>>
    /\ user_status_history = <<>>
    /\ now = 0
    /\ user_reports = SomeReports
    /\ req = NoRequest
    /\ res = NoResponse
    /\ snap = DB
    /\ lastSweep = {}
    /\ calls = [c \in Callers |-> IdleCall]

\* jobs: each row missing, or present with a persisted status
InitJob ==
    /\ jobs \in [JobIds -> {NoJob} \cup {[present |-> TRUE, status |-> st] : st \in JobStatuses}]
    /\ users = SomeUsers
    /\ bookings = SomeBookings
    /\ env = ProductionEnv
    /\ payments = SomePayments
    /\ InitCommon

NextJob ==
    ApproveJob \/ RejectJob \/ CancelJob \/ CompleteJob \/ ReopenJob
      \/ CreateJob \/ UpdateJob \/ UpdateJobStatus \/ DeleteJob \/ Respond

SpecJob == InitJob /\ [][NextJob]_vars

\* bookings: each row missing, or present with a persisted status
InitBooking ==
    /\ bookings \in [BookingIds -> {NoBooking} \cup {[present |-> TRUE, status |-> st] : st \in BookingStatuses}]
    /\ users = SomeUsers
    /\ jobs = SomeJobs
    /\ env = ProductionEnv
    /\ payments = SomePayments
    /\ InitCommon

NextBooking ==
    UpdateBookingStatus \/ ConfirmBooking \/ StartBooking \/ CompleteBooking \/ CancelBooking
      \/ Respond

SpecBooking == InitBooking /\ [][NextBooking]_vars

\* users: a parent and an admin, active and never suspended
InitUser ==
    /\ users = SomeUsers
    /\ jobs = SomeJobs
    /\ bookings = SomeBookings
    /\ env = ProductionEnv
    /\ payments = SomePayments
    /\ InitCommon

NextUser ==
    UpdateUserStatus \/ BulkUpdateUserStatus \/ UpdateUser \/ DeleteUser \/ CreateUser
      \/ Respond

SpecUser == InitUser /\ [][NextUser]_vars

\* the router: any environment
InitAuth ==
    /\ env \in [ALLOW_DEV_BYPASS : BOOLEAN, NODE_ENV : {"development", "production"}]
    /\ users \in {[u \in UserIds |-> UserRow(IF u = "U1" THEN r ELSE "admin", "active")] :
                    r \in {"parent", "superadmin"}}
    /\ jobs = SomeJobs
    /\ bookings = SomeBookings
    /\ payments = SomePayments
    /\ InitCommon

NextAuth == AdminRequest \/ Respond

SpecAuth == InitAuth /\ [][NextAuth]_vars

\* suspensions: the status route, the passing days and the scheduled sweep
NextSuspend == UpdateUserStatus \/ Tick \/ Sweep \/ Respond

SpecSuspend == InitUser /\ [][NextSuspend]_vars

\* payments: the row missing, or present with any status
InitPayment ==
    /\ payments \in [PaymentIds -> {NoPayment} \cup {PaymentRow("B1", st) : st \in PAYMENT_STATUS_VALUES}]
    /\ users = SomeUsers
    /\ jobs = SomeJobs
    /\ bookings = SomeBookings
    /\ env = ProductionEnv
    /\ InitCommon

NextPayment == UpdatePaymentStatus \/ RefundPayment \/ Tick \/ Respond

SpecPayment == InitPayment /\ [][NextPayment]_vars

\* payment reads while proofs come and go
NextProof ==
    ListPayments \/ GetPaymentById \/ UpdatePaymentStatus \/ RefundPayment
      \/ UploadProof \/ RemoveProof \/ Respond

SpecProof == InitPayment /\ [][NextProof]_vars

\* settings and caregiver verification
NextSettings == UpdateSettings \/ VerifyProviderDocuments \/ Respond

SpecSettings == InitUser /\ [][NextSettings]_vars

\* roles: the self-service routes next to the admin user routes
NextRole ==
    UpdateRole \/ UpdateProfile \/ FirebaseSync
      \/ UpdateUserStatus \/ UpdateUser \/ DeleteUser \/ Respond

SpecRole == InitUser /\ [][NextRole]_vars

\* the sweep over a users table with any suspension dates: U1 suspended
\* without a date or until day 1 or 2, U2 in any status with or without a date
InitSweep ==
    /\ users \in {[u \in UserIds |->
                     IF u = "U1"
                     THEN [UserRow("parent", "suspended") EXCEPT !.suspension_end_date = e1]
                     ELSE [UserRow("parent", st) EXCEPT !.suspension_end_date = e2]] :
                   e1 \in {{}, {1}, {2}}, e2 \in {{}, {1}, {2}}, st \in UserStatuses}
    /\ jobs = SomeJobs
    /\ bookings = SomeBookings
    /\ env = ProductionEnv
    /\ payments = SomePayments
    /\ InitCommon

NextSweep == Tick \/ Sweep

SpecSweep == InitSweep /\ [][NextSweep]_vars

\* job lists next to the job routes that write
NextList == ListJobs \/ CreateJob \/ UpdateJobStatus \/ Respond

SpecList == InitJob /\ [][NextList]_vars

\* users lists: one or two users, with or without a caregiver profile
InitUserList ==
    /\ users \in {[u \in UserIds |-> IF u \in present THEN UserRow(role[u], "active") ELSE NoUser] :
                    present \in {{"U1"}, {"U1", "U2"}},
                    role \in [UserIds -> {"parent", "caregiver"}]}
    /\ caregiver_profiles \in [UserIds -> {NoProfile, [present |-> TRUE,
                                                         verification_status |-> "pending",
                                                         is_active |-> FALSE]}]
    /\ jobs = SomeJobs
    /\ bookings = SomeBookings
    /\ env = ProductionEnv
    /\ payments = SomePayments
    /\ payment_proofs = {}
    /\ system_settings = {}
    /\ audit_logs = <<>>
    /\ user_status_history = <<>>
    /\ now = 0
    /\ user_reports = SomeReports
    /\ req = NoRequest
    /\ res = NoResponse
    /\ snap = DB
    /\ lastSweep = {}
    /\ calls = [c \in Callers |-> IdleCall]

NextUserList == ListUsers \/ Respond

SpecUserList == InitUserList /\ [][NextUserList]_vars

\* the status routes of jobs, bookings and payments together; at most one
\* of the three tables has its row, with any persisted status
InitStatus ==
    /\ \E table \in {"none", "jobs", "bookings", "payments"} :
          /\ jobs \in IF table = "jobs"
                       THEN [JobIds -> {[present |-> TRUE, status |-> st] : st \in JobStatuses}]
                       ELSE {[j \in JobIds |-> NoJob]}
          /\ bookings \in IF table = "bookings"
                           THEN [BookingIds -> {[present |-> TRUE, status |-> st] : st \in BookingStatuses}]
                           ELSE {[b \in BookingIds |-> NoBooking]}
          /\ payments \in IF table = "payments"
                           THEN [PaymentIds -> {PaymentRow("B1", st) : st \in PAYMENT_STATUS_VALUES}]
                           ELSE {[p \in PaymentIds |-> NoPayment]}
    /\ users = SomeUsers
    /\ env = ProductionEnv
    /\ InitCommon

NextStatus ==
    ApproveJob \/ RejectJob \/ CancelJob \/ CompleteJob \/ ReopenJob \/ UpdateJobStatus
      \/ UpdateBookingStatus \/ ConfirmBooking \/ StartBooking \/ CompleteBooking \/ CancelBooking
      \/ UpdatePaymentStatus \/ RefundPayment \/ Respond

SpecStatus == InitStatus /\ [][NextStatus]_vars

\* reports: each row missing, or present with a valid status
InitReport ==
    /\ user_reports \in [ReportIds -> {NoReport} \cup {[present |-> TRUE, status |-> st] :
                                                          st \in ReportStatuses}]
    /\ users = SomeUsers
    /\ jobs = SomeJobs
    /\ bookings = SomeBookings
    /\ env = ProductionEnv
    /\ payments = SomePayments
    /\ payment_proofs = {}
    /\ caregiver_profiles = SomeProfiles
    /\ system_settings = {}
    /\ audit_logs = <<>>
    /\ user_status_history = <<>>
    /\ now = 0
    /\ req = NoRequest
    /\ res = NoResponse
    /\ snap = DB
    /\ lastSweep = {}
    /\ calls = [c \in Callers |-> IdleCall]

NextReport == UpdateReportStatus \/ Respond

SpecReport == InitReport /\ [][NextReport]_vars

\* two booking transitions side by side
NextRace == ReadBooking \/ WriteBooking \/ AuditBooking

SpecRace == InitBooking /\ [][NextRace]_vars

\* the logs: every state-changing route, followed one row further
LoggedRoutes ==
    JobRoutes \cup JobCrudRoutes \cup BookingRoutes \cup UserRoutes \cup PaymentRoutes

LoggedRequest ==
    \E route \in LoggedRoutes, fault \in {NoFault} :
      \E args \in ArgsOf(route) :
        /\ (route = "createJob") => \E j \in JobIds : ~jobs[j].present
        /\ ServeUpTo(MaxLog + 1, route, NoHttp, Admin1, args, fault)

NextLog == LoggedRequest \/ Respond

SpecLog == InitUser /\ [][NextLog]_vars

-----------------------------------------------------------------------------
(* Claims on job transitions *)

\* C1: a job action on an existing job succeeds if and only if the job's
\* current status is in the action's allowed-current-status set (approve and
\* reject: pending, open, active; cancel: open, confirmed, pending, active;
\* complete: confirmed, open, active; reopen: cancelled, completed,
\* inactive); outside the set the answer is 400 and neither the job row nor
\* the audit log changes. Stated for requests no storage call fails in.
C1_JobActionAllowList ==
    (/\ req.route \in JobRoutes
     /\ res.handled
     /\ res.failed = "none"
     /\ snap.jobs[req.args.id].present)
    => LET current == snap.jobs[req.args.id].status
           allowed == CASE req.route \in {"approveJob", "rejectJob"} -> {"pending", "open", "active"}
                        [] req.route = "cancelJob" -> {"open", "confirmed", "pending", "active"}
                        [] req.route = "completeJob" -> {"confirmed", "open", "active"}
                        [] req.route = "reopenJob" -> {"cancelled", "completed", "inactive"}
       IN IF current \in allowed
          THEN res.statusCode = 200
          ELSE /\ res.statusCode = 400
               /\ jobs = snap.jobs
               /\ audit_logs = snap.audit_logs

\* C4: every successful job transition appends exactly one audit entry for
\* that job, whose from is the job's status before the transition and whose
\* to is the status written to the job row.
C4_JobAuditFromTo ==
    (/\ req.route \in JobRoutes
     /\ res.handled
     /\ res.statusCode = 200)
    => /\ Len(audit_logs) = Len(snap.audit_logs) + 1
       /\ SubSeq(audit_logs, 1, Len(snap.audit_logs)) = snap.audit_logs
       /\ LET entry == audit_logs[Len(audit_logs)] IN
          /\ entry.target_id = req.args.id
          /\ entry.from = snap.jobs[req.args.id].status
          /\ entry.to = jobs[req.args.id].status

-----------------------------------------------------------------------------
(* Claims on booking transitions *)

\* C2: over every booking operation, the generic status update included, a
\* booking's stored status becomes completed only from confirmed, cancelled
\* only from pending or confirmed, and confirmed only from pending.
C2_BookingStatusEdges ==
    \A b \in BookingIds :
        (snap.bookings[b].present /\ bookings[b].status # snap.bookings[b].status)
        => CASE bookings[b].status = "completed" -> snap.bookings[b].status = "confirmed"
             [] bookings[b].status = "cancelled" -> snap.bookings[b].status \in {"pending", "confirmed"}
             [] bookings[b].status = "confirmed" -> snap.bookings[b].status = "pending"
             [] OTHER -> TRUE

\* C3: confirm, start, complete and cancel succeed only from their allowed
\* current statuses (confirm: pending; start: confirmed; complete:
\* confirmed; cancel: pending or confirmed); from any other status the
\* answer is 400 and the booking status and the audit log are unchanged; a
\* successful cancel stores cancelled, so a second cancel is rejected.
C3_BookingActionGuards ==
    (/\ req.route \in BookingRoutes \ {"updateBookingStatus"}
     /\ res.handled
     /\ snap.bookings[req.args.id].present)
    => LET current == snap.bookings[req.args.id].status
           allowed == CASE req.route = "confirmBooking" -> {"pending"}
                        [] req.route = "startBooking" -> {"confirmed"}
                        [] req.route = "completeBooking" -> {"confirmed"}
                        [] req.route = "cancelBooking" -> {"pending", "confirmed"}
       IN /\ res.statusCode = 200 => current \in allowed
          /\ current \notin allowed =>
                /\ res.statusCode = 400
                /\ bookings = snap.bookings
                /\ audit_logs = snap.audit_logs
          /\ (req.route = "cancelBooking" /\ res.statusCode = 200) =>
                bookings[req.args.id].status = "cancelled"

\* a booking was cancelled, and the cancel after that one is answered 400
C3_SecondCancelRejected ==
    /\ req.route = "cancelBooking"
    /\ res.handled
    /\ res.statusCode = 400
    /\ snap.bookings[req.args.id].status = "cancelled"
    /\ Len(audit_logs) = 1
    /\ audit_logs[1].action = "CANCEL_BOOKING"
    /\ audit_logs[1].target_id = req.args.id
    /\ audit_logs[1].from = "pending"

-----------------------------------------------------------------------------
(* Claims on audit failures *)

\* C10: a failed audit insert never fails the operation it records: a
\* booking operation whose own write succeeded and whose audit insert failed
\* still answers with its success response.
C10_AuditFailureSwallowed ==
    (/\ req.route \in BookingRoutes
     /\ res.handled
     /\ res.failed = "audit")
    => res.statusCode = 200

-----------------------------------------------------------------------------
(* Claims on the protection of admin users *)

\* C5 as stated: no status update, bulk status update, profile update or
\* delete by an actor who is not superadmin changes a user whose role is
\* admin: no user row, status-history entry or audit entry is written for
\* that target, the single-user operations answer 403 and the bulk
\* operation leaves the id out of its results.
C5_AdminTargetForbidden ==
    (/\ req.route \in UserRoutes
     /\ res.handled
     /\ req.actor.role # "superadmin")
    => \A u \in UserIds :
         (snap.users[u].present /\ snap.users[u].role = "admin")
         => /\ users[u] = snap.users[u]
            /\ \A i \in (Len(snap.user_status_history) + 1)..Len(user_status_history) :
                  user_status_history[i].user_id # u
            /\ \A i \in (Len(snap.audit_logs) + 1)..Len(audit_logs) :
                  audit_logs[i].target_id # u
            /\ (req.route # "bulkUpdateUserStatus" /\ req.args.id = u)
                  => res.statusCode = 403
            /\ req.route = "bulkUpdateUserStatus"
                  => \A i \in 1..Len(res.data) : res.data[i] # u

\* C5, amended: as above, except that the status update answers 400, not
\* 403, when the status it is asked for is none of active, suspended,
\* banned, inactive; that check comes before the look at the target.
C5_AdminTargetProtected ==
    (/\ req.route \in UserRoutes
     /\ res.handled
     /\ req.actor.role # "superadmin")
    => \A u \in UserIds :
         (snap.users[u].present /\ snap.users[u].role = "admin")
         => /\ users[u] = snap.users[u]
            /\ \A i \in (Len(snap.user_status_history) + 1)..Len(user_status_history) :
                  user_status_history[i].user_id # u
            /\ \A i \in (Len(snap.audit_logs) + 1)..Len(audit_logs) :
                  audit_logs[i].target_id # u
            /\ (req.route # "bulkUpdateUserStatus" /\ req.args.id = u)
                  => res.statusCode =
                       IF req.route = "updateUserStatus" /\ req.args.status \notin UserStatuses
                       THEN 400 ELSE 403
            /\ req.route = "bulkUpdateUserStatus"
                  => \A i \in 1..Len(res.data) : res.data[i] # u

\* an admin's bulk update over an admin and a parent skipped the admin and
\* suspended the parent
C5_BulkSkippedAdmin ==
    /\ req.route = "bulkUpdateUserStatus"
    /\ res.handled
    /\ req.actor.role = "admin"
    /\ req.args.userIds = <<"U2", "U1">>
    /\ snap.users["U2"].role = "admin"
    /\ snap.users["U1"].status = "active"
    /\ res.statusCode = 200
    /\ res.data = <<"U1">>
    /\ users["U1"].status = "suspended"

-----------------------------------------------------------------------------
(* Claims on the admin router *)

\* C6 as stated: a handler runs only for a request resolved to an
\* authenticated actor whose stored role is admin or superadmin; a missing
\* or invalid credential is answered 401, any other role 403, and in both
\* cases no handler runs and no table is written.
C6_AdminOnly ==
    req.route # "none"
    => LET cred == req.http.cred
           profile == IF cred.kind = "valid" /\ cred.uid \in UserIds
                      THEN snap.users[cred.uid] ELSE NoUser
           role == IF profile.present THEN profile.role ELSE "parent"
           authenticated == cred.kind = "valid" /\ ~req.http.profileError
       IN /\ res.handled =>
                /\ authenticated
                /\ role \in {"admin", "superadmin"}
                /\ req.actor = [id |-> cred.uid, role |-> role]
          /\ cred.kind \in {"none", "empty", "invalid"} => res.statusCode = 401
          /\ (authenticated /\ role \notin {"admin", "superadmin"}) => res.statusCode = 403
          /\ ~res.handled => (res.statusCode \in {401, 403} /\ DB = snap)

\* C6, amended: the above holds where ALLOW_DEV_BYPASS is not "true".
\* There a handler runs only for a valid token whose user's stored role is
\* admin or superadmin; a missing, empty or rejected token and a failed
\* profile query are answered 401; a valid token of any other role, a
\* user without a profile row included, is answered 403; a token holding
\* "mock-signature" is answered 403 under NODE_ENV=development (it is taken
\* for a parent) and 401 otherwise; a refused request writes no table.
C6_AdminOnlyWithoutDevBypass ==
    (req.route # "none" /\ ~env.ALLOW_DEV_BYPASS)
    => LET cred == req.http.cred
           profile == IF cred.kind = "valid" /\ cred.uid \in UserIds
                      THEN snap.users[cred.uid] ELSE NoUser
           role == IF profile.present THEN profile.role ELSE "parent"
           authenticated == cred.kind = "valid" /\ ~req.http.profileError
           asMock == cred.kind = "mock" /\ env.NODE_ENV = "development"
       IN /\ res.handled =>
                /\ authenticated
                /\ role \in {"admin", "superadmin"}
                /\ req.actor = [id |-> cred.uid, role |-> role]
          /\ (~authenticated /\ ~asMock) => res.statusCode = 401
          /\ (asMock \/ (authenticated /\ role \notin {"admin", "superadmin"}))
                => res.statusCode = 403
          /\ ~res.handled => (res.statusCode \in {401, 403} /\ DB = snap)

\* with ALLOW_DEV_BYPASS off, a request carrying X-Dev-Bypass: 1 and no
\* Authorization header was answered 401 and no handler ran
C6_BypassHeaderRefused ==
    /\ req.route # "none"
    /\ ~env.ALLOW_DEV_BYPASS
    /\ req.http.bypass
    /\ req.http.cred.kind = "none"
    /\ res.statusCode = 401
    /\ ~res.handled

-----------------------------------------------------------------------------
(* Claims on suspensions *)

\* C7: after a successful status update to suspended with durationDays = d
\* the stored suspension_end_date is the request time plus d days (7 when
\* durationDays is omitted); after a successful update to active it is null.
\* Stated for the time before the next sweep.
C7_SuspensionEndDateStored ==
    (/\ req.route = "updateUserStatus"
     /\ res.handled
     /\ res.statusCode = 200
     /\ lastSweep = {})
    => LET d == IF req.args.durationDays = {} THEN 7
                ELSE CHOOSE x \in req.args.durationDays : TRUE
       IN /\ req.args.status = "suspended"
                => users[req.args.id].suspension_end_date = {req.at + d}
          /\ req.args.status = "active"
                => users[req.args.id].suspension_end_date = {}

\* C8: after each successful suspension the stored suspension_count is its
\* previous stored value plus one.
C8_SuspensionCountIncremented ==
    (/\ req.route = "updateUserStatus"
     /\ res.handled
     /\ res.statusCode = 200
     /\ req.args.status = "suspended")
    => users[req.args.id].suspension_count = snap.users[req.args.id].suspension_count + 1

\* C9: a user suspended with durationDays = d is reactivated by any sweep
\* that runs after request time + d days: after such a sweep, and before
\* any further admin request, the status is active and suspension_end_date
\* is null.
C9_SweepReactivates ==
    (/\ req.route = "updateUserStatus"
     /\ res.handled
     /\ res.statusCode = 200
     /\ req.args.status = "suspended"
     /\ lastSweep # {}
     /\ \A s \in lastSweep :
           s > req.at + (IF req.args.durationDays = {} THEN 7
                         ELSE CHOOSE x \in req.args.durationDays : TRUE))
    => /\ users[req.args.id].status = "active"
       /\ users[req.args.id].suspension_end_date = {}

-----------------------------------------------------------------------------
(* Claims on the audit trail *)

\* C11: every state-changing admin operation that answers with a success
\* response, no storage call having failed, has appended at least one
\* audit entry naming the acting admin and a target.  An operation counts
\* as state-changing when a table other than the two logs differs after it.
C11_SuccessAudited ==
    (/\ req.route # "none"
     /\ res.handled
     /\ res.statusCode \in {200, 201}
     /\ res.failed = "none"
     /\ [DB EXCEPT !.audit_logs = <<>>, !.user_status_history = <<>>]
          # [snap EXCEPT !.audit_logs = <<>>, !.user_status_history = <<>>])
    => \E i \in (Len(snap.audit_logs) + 1)..Len(audit_logs) :
          /\ audit_logs[i].admin_id = req.actor.id
          /\ audit_logs[i].target_id # UNDEF

\* the rows of `before` are the first rows of `after`, in the same order
IsPrefix(before, after) ==
    /\ Len(before) <= Len(after)
    /\ SubSeq(after, 1, Len(before)) = before

\* C12: no step removes or changes a row of audit_logs or of
\* user_status_history; each step leaves both as they were or adds rows at
\* the end.
C12_LogsAppendOnly ==
    [][/\ IsPrefix(audit_logs, audit_logs')
       /\ IsPrefix(user_status_history, user_status_history')]_vars

\* a request added a row to an audit log that already held one
C12_AppendedToNonEmptyLog ==
    /\ req.route # "none"
    /\ res.handled
    /\ Len(snap.audit_logs) >= 1
    /\ Len(audit_logs) > Len(snap.audit_logs)
    /\ SubSeq(audit_logs, 1, Len(snap.audit_logs)) = snap.audit_logs
    /\ audit_logs[Len(audit_logs)] # audit_logs[1]

-----------------------------------------------------------------------------
(* Claims on user deletion *)

\* C13: after a successful admin delete-user request the target's users row
\* still exists, with status inactive and with deleted_at and deleted_by
\* stamped.
C13_DeleteKeepsRow ==
    (/\ req.route = "deleteUser"
     /\ res.handled
     /\ res.statusCode = 200)
    => /\ users[req.args.id].present
       /\ users[req.args.id].status = "inactive"
       /\ users[req.args.id].deleted_at # {}
       /\ users[req.args.id].deleted_by = {req.actor.id}

-----------------------------------------------------------------------------
(* Claims on payments *)

\* a note that is missing, empty or made of spaces only
BlankNote(note) ==
    \/ note.type = "undefined"
    \/ note.type = "string" /\ \A i \in 1..Len(note.chars) : note.chars[i] = " "

\* the request left the payments table and the audit log as they were
PaymentUntouched == payments = snap.payments /\ audit_logs = snap.audit_logs

\* C14: a status update that would move an existing payment to paid with
\* notes that are missing, empty or whitespace-only, and a refund of an
\* existing payment with such a reason, are answered 400 and leave the
\* payment row and the audit log unchanged.
C14_BlankNoteRejected ==
    /\ (/\ req.route = "updatePaymentStatus"
         /\ res.handled
         /\ req.args.status \in {"paid", " PAID "}
         /\ snap.payments[req.args.id].present
         /\ snap.payments[req.args.id].payment_status # "paid"
         /\ BlankNote(req.args.notes))
        => (res.statusCode = 400 /\ PaymentUntouched)
    /\ (/\ req.route = "refundPayment"
         /\ res.handled
         /\ snap.payments[req.args.id].present
         /\ BlankNote(req.args.reason))
        => (res.statusCode = 400 /\ PaymentUntouched)

\* a move of a pending payment to paid with notes of one space was refused
C14_SpaceNotesRefused ==
    /\ req.route = "updatePaymentStatus"
    /\ res.handled
    /\ req.args.status = " PAID "
    /\ req.args.notes = JsString(<<" ">>)
    /\ snap.payments[req.args.id].present
    /\ snap.payments[req.args.id].payment_status = "pending"
    /\ res.statusCode = 400
    /\ PaymentUntouched

\* C15: refunded is terminal; no step changes the stored status of a payment
\* whose stored status is refunded.
C15_RefundedIsTerminal ==
    [][\A p \in PaymentIds :
         (payments[p].present /\ payments[p].payment_status = "refunded")
         => (payments'[p].present /\ payments'[p].payment_status = "refunded")]_vars

\* C16: a status update whose target is the payment's current status is
\* answered 200 with the existing record, writes nothing to the payment row
\* (status, notes and updated_at as before) and appends no audit entry, so
\* the state after it is the state before it.
C16_SameStatusNoOp ==
    (/\ req.route = "updatePaymentStatus"
     /\ res.handled
     /\ snap.payments[req.args.id].present
     /\ \/ req.args.status = snap.payments[req.args.id].payment_status
        \/ req.args.status = " PAID " /\ snap.payments[req.args.id].payment_status = "paid")
    => /\ res.statusCode = 200
       /\ Len(res.data) = 1
       /\ res.data[1].id = req.args.id
       /\ res.data[1].paymentStatus = snap.payments[req.args.id].payment_status
       /\ res.data[1].notes = snap.payments[req.args.id].notes
       /\ DB = snap

\* a paid payment was set to paid again on a later day, without notes
C16_PaidAgainLater ==
    /\ req.route = "updatePaymentStatus"
    /\ res.handled
    /\ req.args.status = " PAID "
    /\ req.args.notes = JsUndefined
    /\ snap.payments[req.args.id].present
    /\ snap.payments[req.args.id].payment_status = "paid"
    /\ req.at > snap.payments[req.args.id].updated_at
    /\ res.statusCode = 200
    /\ DB = snap

-----------------------------------------------------------------------------
(* Claims on payment proofs *)

\* the payment_proofs rows stored for a booking
StoredProofs(bookingId) == {r \in payment_proofs : r.booking_id = bookingId}

\* ok when the booking has a proof and every proof of it has a storage
\* path, a public URL and a MIME type among `imageTypes`
ProofStatusOf(bookingId, imageTypes) ==
    IF /\ StoredProofs(bookingId) # {}
       /\ \A r \in StoredProofs(bookingId) :
             /\ r.storage_path # UNDEF
             /\ r.public_url # UNDEF
             /\ r.mime_type \in imageTypes
    THEN "ok"
    ELSE "needs_review"

\* every payment record of a successful read carries the status the stored
\* proofs give, and with no proof exactly the one issue
ReadsFollowProofs(imageTypes) ==
    (req.route \in PaymentRoutes /\ res.handled /\ res.statusCode = 200)
    => \A i \in 1..Len(res.data) :
          /\ res.data[i].proofStatus = ProofStatusOf(res.data[i].bookingId, imageTypes)
          /\ StoredProofs(res.data[i].bookingId) = {}
               => res.data[i].proofIssues = <<"No payment proof uploaded">>

\* C17: on every payment read proofStatus is ok exactly when the booking has
\* at least one stored proof and every proof has a storage path, a public
\* URL and a MIME type starting with image/, and needs_review otherwise;
\* with zero proofs proofIssues is exactly ["No payment proof uploaded"].
C17_ProofStatusFromProofs == ReadsFollowProofs({MimeImage})

\* C17 with the MIME type compared without regard to letter case
C17_ProofStatusIgnoringCase == ReadsFollowProofs({MimeImage, MimeImageUpper})

\* a read answered ok for a payment whose only proof has an upper-case
\* image MIME type
C17_UpperCaseImageOk ==
    /\ req.route = "getPaymentById"
    /\ res.handled
    /\ res.statusCode = 200
    /\ StoredProofs(res.data[1].bookingId) # {}
    /\ \A r \in StoredProofs(res.data[1].bookingId) : r.mime_type = MimeImageUpper
    /\ res.data[1].proofStatus = "ok"

-----------------------------------------------------------------------------
(* Claims on stored vocabularies *)

\* C18: after any admin job operations the status stored on every job row
\* is one of active, filled, cancelled, completed.
C18_JobStatusPersistedEnum ==
    \A j \in JobIds :
        jobs[j].present => jobs[j].status \in {"active", "filled", "cancelled", "completed"}

\* C19: after any admin user operations the status stored on every users
\* row is one of active, suspended, banned, inactive.
C19_UserStatusEnum ==
    \A u \in UserIds :
        users[u].present => users[u].status \in {"active", "suspended", "banned", "inactive"}

-----------------------------------------------------------------------------
(* Claims on roles *)

\* C20: the stored role of an existing user changes only in a step of the
\* admin user-update route.
C20_RoleChangesOnlyByAdminUpdate ==
    [][\A u \in UserIds :
         (users[u].present /\ users'[u].present /\ users'[u].role # users[u].role)
         => req'.route = "updateUser"]_vars

-----------------------------------------------------------------------------
(* Claims on the bulk user status update *)

\* C21: the bulk user status update goes on past an id that fails and keeps
\* the writes of the ids before it, and its data holds exactly the users
\* whose status this request updated: a returned user has the target status
\* stored, and a user whose stored status changed is returned.
C21_BulkReturnsUpdated ==
    (/\ req.route = "bulkUpdateUserStatus"
     /\ res.handled
     /\ res.statusCode = 200)
    => /\ \A i \in 1..Len(res.data) : users[res.data[i]].status = req.args.status
       /\ \A u \in UserIds :
             (snap.users[u].present /\ users[u].status # snap.users[u].status)
             => \E i \in 1..Len(res.data) : res.data[i] = u

\* C22: for a user it updates, the bulk update has the effects of one
\* updateUserStatus call with the same target status: the same stored users
\* row, one more status-history entry, one more audit entry and one status
\* email to the user.
C22_BulkAsSingleUpdate ==
    (/\ req.route = "bulkUpdateUserStatus"
     /\ res.handled
     /\ res.statusCode = 200
     /\ res.failed = "none"
     /\ Len(req.args.userIds) = 1
     /\ res.data = req.args.userIds)
    => LET single == updateUserStatus(snap, req.actor,
                         [NoArgs EXCEPT !.id = req.args.userIds[1],
                                        !.status = req.args.status],
                         NoFault, req.at)
       IN /\ single.statusCode = 200
          /\ users = single.db.users
          /\ Len(user_status_history) = Len(single.db.user_status_history)
          /\ Len(audit_logs) = Len(single.db.audit_logs)
          /\ res.emails = single.emails

-----------------------------------------------------------------------------
(* Claims on the status notification *)

\* C24: when the sending of the status email fails during updateUserStatus,
\* the response is still 200 and the users row update, the status-history
\* entry and the audit entry of the request are in place.
C24_EmailFailureSwallowed ==
    (/\ req.route = "updateUserStatus"
     /\ res.handled
     /\ res.failed = "email")
    => /\ res.statusCode = 200
       /\ users[req.args.id].status = req.args.status
       /\ Len(user_status_history) = Len(snap.user_status_history) + 1
       /\ user_status_history[Len(user_status_history)].user_id = req.args.id
       /\ user_status_history[Len(user_status_history)].status = req.args.status
       /\ Len(audit_logs) = Len(snap.audit_logs) + 1
       /\ audit_logs[Len(audit_logs)].target_id = req.args.id
       /\ audit_logs[Len(audit_logs)].to = req.args.status

\* a suspension went through although its email could not be sent
C24_SuspendedWithoutEmail ==
    /\ req.route = "updateUserStatus"
    /\ res.handled
    /\ res.failed = "email"
    /\ res.emails = <<>>
    /\ res.statusCode = 200
    /\ req.args.status = "suspended"
    /\ snap.users[req.args.id].status = "active"
    /\ users[req.args.id].status = "suspended"

-----------------------------------------------------------------------------
(* Claims on concurrent transitions *)

\* both calls read the booking before either stored a status, both passed
\* the allow-list check, and both have returned
BothReadFirst ==
    \A c \in Callers :
        /\ calls[c].pc = "done"
        /\ calls[c].statusCode \notin {400, 404}
        /\ calls[c].writesSeen = 0

-----------------------------------------------------------------------------
(* Claims on the suspension sweep *)

\* the sweep at time t has to reactivate this row
Expired(row, t) ==
    /\ row.present
    /\ row.status = "suspended"
    /\ \E e \in row.suspension_end_date : e < t

\* C25: a run of auto_reactivate_expired_suspensions leaves every user who
\* is not suspended, or has no suspension end date, or has one that is not
\* yet past, as it was; and a second run right after it changes nothing.
C25_SweepIdempotentSelective ==
    [][(lastSweep' = {now} /\ now' = now)
       => /\ \A u \in UserIds : ~Expired(users[u], now) => users'[u] = users[u]
          /\ \A u \in UserIds : ~Expired(users'[u], now)
          /\ auto_reactivate_expired_suspensions(users', now) = users']_vars

\* a sweep has reactivated U1 and left U2 banned, its past date in place
C25_ReactivatedOneOnly ==
    /\ lastSweep = {now}
    /\ users["U1"].status = "active"
    /\ users["U1"].suspension_end_date = {}
    /\ users["U2"].status = "banned"
    /\ \E e \in users["U2"].suspension_end_date : e < now

-----------------------------------------------------------------------------
(* Claims on list paging *)

\* C26: a list request never sends storage a negative offset or a range
\* whose end is below its start; a page or limit that is zero or negative
\* counts as the default.
C26_RangeNeverNegative ==
    (/\ req.route = "listJobs"
     /\ res.handled
     /\ res.statusCode = 200)
    => /\ res.range[1] >= 0
       /\ res.range[2] >= res.range[1]

-----------------------------------------------------------------------------
(* Claims on the users list *)

\* the selects of `names` among the selects a users list sent
SelectsOf(sent, names) == SelectSeq(sent, LAMBDA x : x.select \in names)

\* C27: when the users select with the caregiver embeds ends with an
\* unresolvable-relationship error, getUsers sends the users select once
\* more, without the embeds, and nothing after it is a users select; it
\* sends each batched select at most once; with no other error it hands
\* back users, total, page and limit with the caregiver profile (or null)
\* and the background checks of the tables attached to every user of the
\* page; any other error is thrown to the caller.
C27_RetryOnceAndMerge ==
    (/\ req.route = "listUsers"
     /\ res.handled)
    => LET r == res.data
           sent == r.selects
           failedSelects == SelectSeq(sent, LAMBDA x : x.error # "none")
       IN /\ sent[1].select = "users+embed"
          /\ Len(SelectsOf(sent, {"users+embed"})) = 1
          /\ Len(SelectsOf(sent, {"users"})) <= 1
          /\ Len(SelectsOf(sent, {"caregiver_profiles"})) <= 1
          /\ Len(SelectsOf(sent, {"caregiver_background_checks"})) <= 1
          /\ (sent[1].error = "none") => (Len(sent) = 1 /\ r.threw = "none")
          /\ (sent[1].error = "other") => (Len(sent) = 1 /\ r.threw = "other")
          /\ (sent[1].error = "relationship") =>
                /\ Len(sent) >= 2
                /\ sent[2].select = "users"
                /\ (Len(failedSelects) > 1) =>
                      (r.threw = failedSelects[2].error /\ res.statusCode = 500)
                /\ (Len(failedSelects) = 1) =>
                      /\ r.threw = "none"
                      /\ res.statusCode = 200
                      /\ r.page = (IF req.args.page = UNDEF THEN 1 ELSE Number(req.args.page))
                      /\ r.limit = (IF req.args.limit = UNDEF THEN ListUsersLimit
                                    ELSE Number(req.args.limit))
                      /\ r.total = Cardinality({u \in UserIds :
                                        /\ snap.users[u].present
                                        /\ (req.args.role = UNDEF
                                              \/ snap.users[u].role = req.args.role)})
                      /\ \A i \in 1..Len(r.users) :
                            /\ r.users[i].caregiver_profiles
                                 = snap.caregiver_profiles[r.users[i].id]
                            /\ r.users[i].caregiver_background_checks
                                 = caregiver_background_checks[r.users[i].id]

\* a list whose first select could not resolve the relationship and that
\* came back with a user carrying a profile and checks
C27_RetriedAndMerged ==
    /\ req.route = "listUsers"
    /\ res.handled
    /\ res.statusCode = 200
    /\ res.data.selects[1].error = "relationship"
    /\ Len(res.data.selects) = 4
    /\ \E i \in 1..Len(res.data.users) :
          /\ res.data.users[i].caregiver_profiles.present
          /\ Len(res.data.users[i].caregiver_background_checks) = 2

-----------------------------------------------------------------------------
(* Claims on the order of the status write and the audit write *)

StatusRoutes ==
    JobRoutes \cup {"updateJobStatus"} \cup BookingRoutes
      \cup {"updatePaymentStatus", "refundPayment"}

\* the status column of the request's target row in the tables `db`
TargetStatusIn(db) ==
    IF req.route \in JobRoutes \cup {"updateJobStatus"} THEN db.jobs[req.args.id].status
    ELSE IF req.route \in BookingRoutes THEN db.bookings[req.args.id].status
    ELSE db.payments[req.args.id].payment_status

\* the status the request asks for
StatusAskedFor ==
    CASE req.route \in {"approveJob"} -> "filled"
      [] req.route \in {"rejectJob", "cancelJob", "cancelBooking"} -> "cancelled"
      [] req.route \in {"completeJob", "completeBooking"} -> "completed"
      [] req.route = "reopenJob" -> "active"
      [] req.route \in {"confirmBooking", "startBooking"} -> "confirmed"
      [] req.route = "refundPayment" -> "refunded"
      [] req.route = "updatePaymentStatus" -> normalizedStatus(req.args.status)
      [] OTHER -> req.args.status

RequestTables(db) == <<db.jobs, db.bookings, db.payments>>

\* C28: a job, booking or payment status request appends at most one audit
\* entry, and only after its status write was stored: when it appended one
\* it answered 200 and the target row has the status asked for; when it
\* answered 404 or 400 or its status write failed, the audit log and the
\* rows are as before; when the audit insert is what failed, the status
\* write is already stored.
C28_AuditFollowsAppliedWrite ==
    (/\ req.route \in StatusRoutes
     /\ res.handled)
    => /\ \/ audit_logs = snap.audit_logs
          \/ /\ Len(audit_logs) = Len(snap.audit_logs) + 1
             /\ SubSeq(audit_logs, 1, Len(snap.audit_logs)) = snap.audit_logs
             /\ audit_logs[Len(audit_logs)].target_id = req.args.id
             /\ res.statusCode = 200
             /\ res.failed = "none"
             /\ TargetStatusIn(DB) = StatusAskedFor
       /\ (res.statusCode \in {400, 404} \/ res.failed = "write")
            => /\ audit_logs = snap.audit_logs
               /\ RequestTables(DB) = RequestTables(snap)
       /\ (res.failed = "audit")
            => /\ audit_logs = snap.audit_logs
               /\ TargetStatusIn(DB) = StatusAskedFor

\* a pending booking confirmed, with the one audit entry of the request
C28_ConfirmedThenAudited ==
    /\ req.route = "confirmBooking"
    /\ res.statusCode = 200
    /\ Len(audit_logs) = 1
    /\ snap.audit_logs = <<>>
    /\ snap.bookings["B1"].status = "pending"
    /\ bookings["B1"].status = "confirmed"

-----------------------------------------------------------------------------
(* Claims on reports *)

\* C29: the audit entry of a successful report status update has from =
\* the status the report had before the update and to = the new status, so
\* from differs from to when the status changed.
C29_ReportAuditFromTo ==
    (/\ req.route = "updateReportStatus"
     /\ res.handled
     /\ res.statusCode = 200)
    => LET entry == audit_logs[Len(audit_logs)]
           before == snap.user_reports[req.args.id].status
       IN /\ Len(audit_logs) = Len(snap.audit_logs) + 1
          /\ entry.from = before
          /\ entry.to = req.args.status
          /\ (before # req.args.status) => (entry.from # entry.to)

-----------------------------------------------------------------------------
(* Claims on the settings record *)

\* C30: a settings update leaves every field that its body omits at the
\* value the stored settings row had before the request.
C30_OmittedSettingsKept ==
    (/\ req.route = "updateSettings"
     /\ res.handled
     /\ res.statusCode = 200)
    => \A before \in snap.system_settings, after \in system_settings, k \in SettingKeys :
          (req.args.settings[k] = {}) => (after[k] = before[k])

====
